---- MODULE Spec2Model ----
(***************************************************************************)
(* LevelsQ: the asset loader, the level carousel, the edge-transition      *)
(* state machine, the player kinematics, the background pan and the layer  *)
(* animation of src/unnamed/part_000 (the home-aware carousel version) and *)
(* of src/src/main.js (random level choice, debug start-level override).   *)
(* The variable `version` says which script runs: "carousel", "random",    *)
(* or "proto" for the predecessor script kept in src/src/main.js after     *)
(* line 494 (one image per level, no layers).                              *)
(*                                                                         *)
(* Units.  Positions are in 1/100 of a logical pixel, times in             *)
(* milliseconds.  player.speed = 90 px/s is 9 position units per ms, so    *)
(*   player.x += vx * player.speed * dt                                    *)
(* is  x + vx * 9 * dtMs  with dtMs = min(33, t - lastT).  Layer timers    *)
(* count in 1/3000 ms, and the pan is computed in exact fractions; the     *)
(* rounding of IEEE doubles is not modelled.                               *)
(*                                                                         *)
(* Clock.  The code only ever uses differences of time stamps              *)
(* (t - lastT, performance.now() >= transitionUntil).  Every time value is *)
(* therefore kept relative to the time stamp t of the current frame        *)
(* (lastT after the tick): a tick that comes d ms after the previous one   *)
(* lowers state.transitionUntil by d.  A deadline already in the past is   *)
(* kept at 0 (performance.now() >= t >= deadline stays true).              *)
(*                                                                         *)
(* Hero animation.  player.frameIndex and player.frameTimer are fields of  *)
(* the player record in the specifications that start from InitPlayerAnim  *)
(* (SpecAnim, SpecProto); the other specifications leave them out, no      *)
(* other variable depends on them.  `ticks` counts the frames of such a    *)
(* run.  frame.calls lists the drawImage calls of the last frame by role;  *)
(* the pixels themselves are not modelled.                                 *)
(***************************************************************************)
EXTENDS Integers, Sequences, FiniteSets, TLC

\* ---------------------------------------------------------------- bounds
MaxLevels == 3          \* longest "levels" array of levels.json in the full game
MaxRing == 4            \* longest "levels" array when only the carousel is driven
MaxAssetLevels == 2     \* longest "levels" array when the layers are configured
MaxConfigured == 2      \* most layer fields (layer1..layer4) one level entry gives
MaxIntervals == 10      \* most whole frame intervals one call delivers
MaxTicks == 16          \* most frames of a run with the hero's frame counter
CanvasWidth == 12       \* canvas.width in logical pixels
Deltas == {33, 70}     \* ms between two animation frames (t - lastT)
Jitters == {0, 2}       \* ms between the frame stamp t and performance.now()

\* ------------------------------------------------------- program constants
W == CanvasWidth * 100
Speed == 90
InitRenderW == 26
TransitionMs == 60
MaxDtMs == 33
EdgeInset == 2
MaxPanPx == 55          \* MAX_PAN_PX
BgZoom == 105           \* BG_ZOOM, in percent
FgZoom == 102           \* FG_ZOOM, in percent
FollowDen == 40         \* follow strengths are counted in 1/40
BgFollow == 1           \* BG_FOLLOW = 0.025 = 1/40
FgFollow == 22          \* FG_FOLLOW = 0.55 = 22/40
DefaultLayerFps == 12   \* DEFAULT_LAYER_FPS
IdleCount == 1          \* main.js: SPRITES.idle.count
WalkCount == 8          \* main.js: SPRITES.walk.count
IdleFps == 6            \* part_000: SPRITES.idle.fps
WalkFps == 12           \* SPRITES.walk.fps
MainIdleFps == 1        \* main.js: SPRITES.idle.fps
ProtoSpeed == 260       \* main.js, predecessor script: player.speed
ProtoIdleFps == 8       \* predecessor: SPRITES.idle.fps
ProtoIdleCount == 4     \* predecessor: SPRITES.idle.count
ProtoWalkCount == 6     \* predecessor: SPRITES.walk.count
RenderWs == {4, CanvasWidth - 1}   \* Math.round(base.width * SPRITE_SCALE), px
Zooms == {100, BgZoom, FgZoom, 1100}          \* zoom arguments, in percent
Follows == {-20, 0, BgFollow, FgFollow, FollowDen, 60}  \* followStrength, 1/40

VARIABLES
  levelData,    \* the usable level pool (descriptors whose background loaded)
  state,        \* const state = { levelIndex, transitioning, ... }
  player,       \* const player = { x, visible, facing, anim, renderW }
  input,        \* const input = { left, right }
  levelsPhase,  \* loadLevels(): "pending" | "ok" | "failed"
  spritesPhase, \* loadSprites(): "pending" | "ok" | "failed"
  boot,         \* Promise.all(...): "loading" | "running" | "error"
  version,      \* which script runs: "carousel" (src/unnamed/part_000),
                \* "random" (src/src/main.js, lines 1-493) or "proto" (the
                \* predecessor script, src/src/main.js lines 495-796)
  url,          \* ?debug=..&level=.. of the page URL (read by main.js only)
  config,       \* the document data/levels.json holds, in the specifications
                \* that fix it beforehand (elsewhere loadLevels draws it)
  levelAssets,  \* const levelAssets = new Map(): key -> asset bundle
  seen,         \* warnOnce._seen
  warnLog,      \* the keys of the messages warnOnce passed to console.warn
  heroFrames,   \* lengths of heroIdleFrames and heroWalkFrames
  frame,        \* what the last tick drew: frame number (0: none yet, 1: first,
                \* 2: later), level drawn, hero drawn, draw calls by role
  rightRun,     \* history: number of carousel moves so far if all of them were
                \* rightward (saturating), -1 once a leftward move happened
  ticks         \* history: number of frames so far, in the specifications
                \* that bound the length of a run (elsewhere it stays 0)

vars == <<levelData, state, player, input, levelsPhase, spritesPhase, boot,
          version, url, config, levelAssets, seen, warnLog, heroFrames, frame,
          rightRun, ticks>>

\* what the loaders read and write besides levelData, state and player
loaderVars == <<config, levelAssets, seen, warnLog, heroFrames>>

\* ---------------------------------------------------------------- helpers
Min(a, b) == IF a < b THEN a ELSE b
Max(a, b) == IF a > b THEN a ELSE b
Range(s) == {s[k] : k \in 1..Len(s)}
\* JavaScript arrays are 0-based
At(s, i) == s[i + 1]
Indices(n) == [k \in 1..n |-> k - 1]

clamp(v, lo, hi) == Max(lo, Min(hi, v))

RunCap == MaxRing + 2

isHomeIndex(s, i) == s.homeIndex # -1 /\ i = s.homeIndex

nonHomeIndices(s) ==
  SelectSeq(Indices(Len(levelData)), LAMBDA i : ~isHomeIndex(s, i))

usedNonHomeCount(s) ==
  Len(SelectSeq(s.carousel, LAMBDA i : ~isHomeIndex(s, i)))

\* faulty variant: the draw forgets which indices are already in the carousel
pickUnusedNonHomeLevelIndex_IgnoresUsed(s) ==
  LET nonHome == nonHomeIndices(s)
  IN  IF Len(nonHome) = 0 THEN {0} ELSE Range(nonHome)

\* the set of values the random draw can return
pickUnusedNonHomeLevelIndex(s) ==
  LET used == Range(s.carousel)
      pool == SelectSeq(nonHomeIndices(s), LAMBDA i : i \notin used)
      nonHome == nonHomeIndices(s)
  IN  IF Len(pool) = 0
      THEN {IF Len(nonHome) > 0 THEN nonHome[1] ELSE 0}
      ELSE Range(pool)

\* faulty variant: the home level is not used as the seed
initCarouselWithHomeOrFallback_NoHome(s, ld) ==
  {[s EXCEPT !.carousel = <<startIdx>>, !.carouselPos = 0,
             !.levelIndex = startIdx] : startIdx \in 0..(Len(ld) - 1)}

\* state after initCarouselWithHomeOrFallback, one per value of randInt
\* (ld: the levelData it runs on, assigned just before the call)
initCarouselWithHomeOrFallback(s, ld) ==
  IF s.homeIndex # -1
  THEN {[s EXCEPT !.carousel = <<s.homeIndex>>, !.carouselPos = 0,
                  !.levelIndex = s.homeIndex]}
  ELSE {[s EXCEPT !.carousel = <<startIdx>>, !.carouselPos = 0,
                  !.levelIndex = startIdx] : startIdx \in 0..(Len(ld) - 1)}

\* faulty variant: exhaustion tested with > instead of >=
carouselMoveRight_StrictExhaustion(s) ==
  IF Len(levelData) <= 1 THEN {[st |-> s, ret |-> s.levelIndex]}
  ELSE
    LET nonHome == nonHomeIndices(s)
        allUsed == usedNonHomeCount(s) > Len(nonHome)
    IN  IF allUsed
        THEN LET pos == (s.carouselPos + 1) % Len(s.carousel)
             IN  {[st |-> [s EXCEPT !.carouselPos = pos],
                   ret |-> At(s.carousel, pos)]}
        ELSE IF s.carouselPos < Len(s.carousel) - 1
        THEN {[st |-> [s EXCEPT !.carouselPos = s.carouselPos + 1],
               ret |-> At(s.carousel, s.carouselPos + 1)]}
        ELSE {[st |-> [s EXCEPT !.carousel = Append(s.carousel, nextIdx),
                                !.carouselPos = Len(s.carousel)],
               ret |-> nextIdx] : nextIdx \in pickUnusedNonHomeLevelIndex(s)}

\* faulty variant: before exhaustion it always draws, without first stepping
\* into the history that lies right of the cursor
carouselMoveRight_NoHistoryStep(s) ==
  IF Len(levelData) <= 1 THEN {[st |-> s, ret |-> s.levelIndex]}
  ELSE
    LET nonHome == nonHomeIndices(s)
        allUsed == usedNonHomeCount(s) >= Len(nonHome)
    IN  IF allUsed
        THEN LET pos == (s.carouselPos + 1) % Len(s.carousel)
             IN  {[st |-> [s EXCEPT !.carouselPos = pos],
                   ret |-> At(s.carousel, pos)]}
        ELSE {[st |-> [s EXCEPT !.carousel = Append(s.carousel, nextIdx),
                                !.carouselPos = Len(s.carousel)],
               ret |-> nextIdx] : nextIdx \in pickUnusedNonHomeLevelIndex(s)}

\* faulty variant: always rotates through the recorded sequence, never draws
carouselMoveRight_OnlyRotates(s) ==
  IF Len(levelData) <= 1 THEN {[st |-> s, ret |-> s.levelIndex]}
  ELSE LET pos == (s.carouselPos + 1) % Len(s.carousel)
       IN  {[st |-> [s EXCEPT !.carouselPos = pos], ret |-> At(s.carousel, pos)]}

\* faulty variant: always draws and appends, with neither the single-level
\* guard nor the exhaustion test
carouselMoveRight_AlwaysDraws(s) ==
  {[st |-> [s EXCEPT !.carousel = Append(s.carousel, nextIdx),
                     !.carouselPos = Len(s.carousel)],
    ret |-> nextIdx] : nextIdx \in pickUnusedNonHomeLevelIndex(s)}

\* A carousel move yields the new state and the returned level index; the
\* operators give the set of outcomes, one per value the random draw can take.
carouselMoveRight(s) ==
  IF Len(levelData) <= 1 THEN {[st |-> s, ret |-> s.levelIndex]}
  ELSE
    LET nonHome == nonHomeIndices(s)
        allUsed == usedNonHomeCount(s) >= Len(nonHome)
    IN  IF allUsed
        THEN LET pos == (s.carouselPos + 1) % Len(s.carousel)
             IN  {[st |-> [s EXCEPT !.carouselPos = pos],
                   ret |-> At(s.carousel, pos)]}
        ELSE IF s.carouselPos < Len(s.carousel) - 1
        THEN {[st |-> [s EXCEPT !.carouselPos = s.carouselPos + 1],
               ret |-> At(s.carousel, s.carouselPos + 1)]}
        ELSE {[st |-> [s EXCEPT !.carousel = Append(s.carousel, nextIdx),
                                !.carouselPos = Len(s.carousel)],
               ret |-> nextIdx] : nextIdx \in pickUnusedNonHomeLevelIndex(s)}

\* faulty variant: push instead of unshift at the start of history
carouselMoveLeft_Appends(s) ==
  IF Len(levelData) <= 1 THEN {[st |-> s, ret |-> s.levelIndex]}
  ELSE
    LET nonHome == nonHomeIndices(s)
        allUsed == usedNonHomeCount(s) >= Len(nonHome)
    IN  IF allUsed
        THEN LET pos == (s.carouselPos - 1 + Len(s.carousel)) % Len(s.carousel)
             IN  {[st |-> [s EXCEPT !.carouselPos = pos],
                   ret |-> At(s.carousel, pos)]}
        ELSE IF s.carouselPos > 0
        THEN {[st |-> [s EXCEPT !.carouselPos = s.carouselPos - 1],
               ret |-> At(s.carousel, s.carouselPos - 1)]}
        ELSE {[st |-> [s EXCEPT !.carousel = Append(s.carousel, prevIdx),
                                !.carouselPos = 0],
               ret |-> prevIdx] : prevIdx \in pickUnusedNonHomeLevelIndex(s)}

carouselMoveLeft(s) ==
  IF Len(levelData) <= 1 THEN {[st |-> s, ret |-> s.levelIndex]}
  ELSE
    LET nonHome == nonHomeIndices(s)
        allUsed == usedNonHomeCount(s) >= Len(nonHome)
    IN  IF allUsed
        THEN LET pos == (s.carouselPos - 1 + Len(s.carousel)) % Len(s.carousel)
             IN  {[st |-> [s EXCEPT !.carouselPos = pos],
                   ret |-> At(s.carousel, pos)]}
        ELSE IF s.carouselPos > 0
        THEN {[st |-> [s EXCEPT !.carouselPos = s.carouselPos - 1],
               ret |-> At(s.carousel, s.carouselPos - 1)]}
        ELSE {[st |-> [s EXCEPT !.carousel = <<prevIdx>> \o s.carousel,
                                !.carouselPos = 0],
               ret |-> prevIdx] : prevIdx \in pickUnusedNonHomeLevelIndex(s)}

\* The player record carries frameIndex and frameTimer only in the
\* specifications that animate the hero (InitPlayerAnim); elsewhere the
\* hero's frame counter is left out and these operators skip it.
HasFrames(p) == "frameIndex" \in DOMAIN p

\* faulty variant: the mode is switched without resetting the frame counter
setAnim_NoReset(p, next) ==
  IF p.anim = next THEN p ELSE [p EXCEPT !.anim = next]

setAnim(p, next) ==
  IF p.anim = next THEN p
  ELSE IF HasFrames(p)
  THEN [p EXCEPT !.anim = next, !.frameIndex = 0, !.frameTimer = 0]
  ELSE [p EXCEPT !.anim = next]

\* ------------------------------------------------------------ pan-follow
\* hero position normalized to [-1, +1], as the fraction num / den
getHeroNormalizedX(p) ==
  LET range == Max(100, W - p.renderW * 100)
      tn == clamp(p.x, 0, range)          \* t = clamp(x / range, 0, 1) = tn / range
  IN  [num |-> 2 * tn - range, den |-> range]

\* faulty variant: the pan is capped by MAX_PAN_PX only, not by the zoom margin
drawZoomPanFollow_IgnoresZoomMargin(zoom, followStrength, p) ==
  LET drawW == CanvasWidth * zoom * 2
      W2 == CanvasWidth * 200
      maxFromZoom == (drawW - W2) \div 2
      maxPan == MaxPanPx * 200
      heroN == getHeroNormalizedX(p)
      scale == heroN.den * FollowDen
      pan == clamp(heroN.num * maxPan * clamp(followStrength, 0, FollowDen),
                   -maxPan * scale, maxPan * scale)
  IN  [scale |-> scale, maxPan |-> maxPan * scale, pan |-> pan,
       x |-> -maxFromZoom * scale + pan, drawW |-> drawW * scale,
       W |-> W2 * scale]

\* The horizontal geometry drawZoomPanFollow passes to ctx.drawImage.  Lengths
\* are in 1/200 px (zoom in percent: W * zoom is CanvasWidth * zoom * 2), and
\* every field but scale is multiplied by scale = heroN.den * FollowDen, so
\* that heroN * maxPan * followStrength is computed without rounding.
drawZoomPanFollow(zoom, followStrength, p) ==
  LET drawW == CanvasWidth * zoom * 2
      W2 == CanvasWidth * 200
      maxFromZoom == (drawW - W2) \div 2
      maxPan == Min(maxFromZoom, MaxPanPx * 200)
      heroN == getHeroNormalizedX(p)
      scale == heroN.den * FollowDen
      pan == clamp(heroN.num * maxPan * clamp(followStrength, 0, FollowDen),
                   -maxPan * scale, maxPan * scale)
  IN  [scale |-> scale, maxPan |-> maxPan * scale, pan |-> pan,
       x |-> -maxFromZoom * scale + pan, drawW |-> drawW * scale,
       W |-> W2 * scale]

\* ---------------------------------------------------- universe switching
\* faulty variant: the player stays visible during the transition
triggerEdge_LeavesVisible(s, p, edge, now) ==
  IF s.transitioning THEN <<s, p>>
  ELSE <<[s EXCEPT !.transitioning = TRUE,
                   !.transitionUntil = now + TransitionMs,
                   !.lastEdge = edge],
         p>>

\* faulty variant: no guard on state.transitioning
triggerEdge_Unguarded(s, p, edge, now) ==
  <<[s EXCEPT !.transitioning = TRUE,
              !.transitionUntil = now + TransitionMs,
              !.lastEdge = edge],
    [p EXCEPT !.visible = FALSE]>>

\* now: the value performance.now() returns, relative to the frame stamp
\* faulty variant: the deadline is the trigger time itself
triggerEdge_NoDeadline(s, p, edge, now) ==
  IF s.transitioning THEN <<s, p>>
  ELSE <<[s EXCEPT !.transitioning = TRUE,
                   !.transitionUntil = now,
                   !.lastEdge = edge],
         [p EXCEPT !.visible = FALSE]>>

triggerEdge(s, p, edge, now) ==
  IF s.transitioning THEN <<s, p>>
  ELSE <<[s EXCEPT !.transitioning = TRUE,
                   !.transitionUntil = now + TransitionMs,
                   !.lastEdge = edge],
         [p EXCEPT !.visible = FALSE]>>

\* faulty variant: the player reappears at the edge that was hit
reappear_SameEdge(p, lastEdge) ==
  LET placed == IF lastEdge = "left"
                THEN [p EXCEPT !.x = EdgeInset * 100, !.facing = 1]
                ELSE [p EXCEPT !.x = W - p.renderW * 100 - EdgeInset * 100,
                               !.facing = -1]
  IN  [setAnim(placed, "idle") EXCEPT !.visible = TRUE]

\* the player after the second half of finishTransition
reappear(p, lastEdge) ==
  LET placed == IF lastEdge = "left"
                THEN [p EXCEPT !.x = W - p.renderW * 100 - EdgeInset * 100,
                               !.facing = -1]
                ELSE [p EXCEPT !.x = EdgeInset * 100, !.facing = 1]
  IN  [setAnim(placed, "idle") EXCEPT !.visible = TRUE]

\* faulty variant: the carousel is moved against the triggering edge
finishTransition_WrongDirection(s, p) ==
  LET moves == IF s.lastEdge = "left" THEN carouselMoveRight(s)
                                      ELSE carouselMoveLeft(s)
  IN  {<<[m.st EXCEPT !.levelIndex = m.ret, !.transitioning = FALSE],
         reappear(p, s.lastEdge)>> : m \in moves}

\* the set of <<state, player>> pairs finishTransition can leave (carousel)
finishTransition(s, p) ==
  LET moves == IF s.lastEdge = "left" THEN carouselMoveLeft(s)
                                      ELSE carouselMoveRight(s)
  IN  {<<[m.st EXCEPT !.levelIndex = m.ret, !.transitioning = FALSE],
         reappear(p, s.lastEdge)>> : m \in moves}

\* main.js: state.levelIndex = randInt(0, levelData.length - 1)
finishTransitionRandom(s, p) ==
  {<<[s EXCEPT !.levelIndex = idx, !.transitioning = FALSE],
     reappear(p, s.lastEdge)>> : idx \in 0..(Len(levelData) - 1)}

\* ------------------------------------------------------------ level config
\* A level descriptor of data/levels.json, as far as the carousel reads it:
\* background is "ok" (loads), "fail" (loadImage rejects) or "missing".
LevelDescriptors == [background : {"ok", "fail", "missing"}, isHome : BOOLEAN]

SeqsUpTo(S, n) == UNION {[1..k -> S] : k \in 0..n}

\* what fetch + res.json() can deliver: no usable document (fetch not ok, no
\* "levels" array), or a levels array of at most n entries
Docs(n) ==
  {[available |-> FALSE, levels |-> <<>>]} \cup
  {[available |-> TRUE, levels |-> l] : l \in SeqsUpTo(LevelDescriptors, n)}

\* faulty variant: the last home-flagged level wins
findHomeIndex_LastMatch(ld) ==
  IF \E k \in 1..Len(ld) : ld[k].isHome
  THEN (CHOOSE k \in 1..Len(ld) :
          ld[k].isHome /\ \A m \in (k + 1)..Len(ld) : ~ld[m].isHome) - 1
  ELSE -1

\* levelData.findIndex((l) => l && l.isHome === true)
findHomeIndex(ld) ==
  IF \E k \in 1..Len(ld) : ld[k].isHome
  THEN (CHOOSE k \in 1..Len(ld) :
          ld[k].isHome /\ \A m \in 1..(k - 1) : ~ld[m].isHome) - 1
  ELSE -1

\* -------------------------------------------------------------- JSON values
\* A field the descriptor leaves out reads as dflt (undefined in the code,
\* or what `x || dflt` makes of it).
Field(obj, name, dflt) == IF name \in DOMAIN obj THEN obj[name] ELSE dflt
Undefined == "undefined"
\* a JSON number given where a string is expected ("type": 5)
JsNumber == "<number 5>"
\* String(v)
String(v) == IF v = JsNumber THEN "5" ELSE v
\* v.toLowerCase(), on the strings the descriptors use
toLowerCase(v) ==
  CASE v = "IMAGE" -> "image"
    [] v = "FRAMES" -> "frames"
    [] v = "BG" -> "bg"
    [] OTHER -> v

\* loadImage(src) resolves for these sources and rejects for every other
OkSources == {"ok", "ok2"}
loads(src) == src \in OkSources

\* ------------------------------------------------------------ warnOnce
\* w = [seen, log]: warnOnce._seen and the keys logged so far
warnOnce_NoDedup(w, key) ==
  [seen |-> w.seen \cup {key}, log |-> Append(w.log, key)]

warnOnce(w, key) ==
  IF key \in w.seen THEN w
  ELSE [seen |-> w.seen \cup {key}, log |-> Append(w.log, key)]

\* ------------------------------------------------------- optional layers
\* what a layer slot resolves to: null, or an image or frames asset
NullAsset == [kind |-> "null"]
NullImg == "null"
\* a level descriptor without the field (`!layerSpec`)
NoLayer ==
  [given |-> FALSE, type |-> Undefined, src |-> Undefined, count |-> 0,
   folder |-> Undefined, fps |-> 0, align |-> Undefined]

Resolved(asset, w) == [thrown |-> FALSE, asset |-> asset, w |-> w]
Thrown(w) == [thrown |-> TRUE, asset |-> NullAsset, w |-> w]

\* faulty variant: an unsupported type rejects instead of resolving to null
loadOptionalLayer_ThrowsOnUnsupported(levelId, layerSpec, layerName, w) ==
  IF ~layerSpec.given THEN Resolved(NullAsset, w)
  ELSE
    LET type == toLowerCase(String(IF layerSpec.type = Undefined THEN "frames"
                                   ELSE layerSpec.type))
        align == toLowerCase(String(IF layerSpec.align = Undefined THEN "screen"
                                    ELSE layerSpec.align))
        safeAlign == IF align = "bg" THEN "bg" ELSE "screen"
    IN  IF type = "image"
        THEN IF layerSpec.src = Undefined
             THEN Resolved(NullAsset,
                           warnOnce(w, <<levelId, layerName, "missingSrc">>))
             ELSE IF loads(layerSpec.src)
             THEN Resolved([kind |-> "image", img |-> layerSpec.src,
                            align |-> safeAlign], w)
             ELSE Resolved(NullAsset,
                           warnOnce(w, <<levelId, layerName, "loadFail">>))
        ELSE IF type = "frames"
        THEN IF layerSpec.count = 0 THEN Resolved(NullAsset, w)
             ELSE IF layerSpec.folder = Undefined
             THEN Resolved(NullAsset,
                           warnOnce(w, <<levelId, layerName, "missingFolder">>))
             ELSE IF loads(layerSpec.folder)
             THEN Resolved([kind |-> "frames", frames |-> layerSpec.count,
                            fps |-> IF layerSpec.fps = 0 THEN DefaultLayerFps
                                    ELSE layerSpec.fps,
                            timer |-> 0, frameIndex |-> 0,
                            align |-> safeAlign], w)
             ELSE Resolved(NullAsset,
                           warnOnce(w, <<levelId, layerName, "loadFail">>))
        ELSE Thrown(warnOnce(w, <<levelId, layerName, "unsupportedType">>))

\* part_000: the asset of one layer slot and the warnings after it
\* (count: Number(layerSpec.count || 0), fps: 0 stands for a missing fps)
loadOptionalLayer(levelId, layerSpec, layerName, w) ==
  IF ~layerSpec.given THEN Resolved(NullAsset, w)
  ELSE
    LET type == toLowerCase(String(IF layerSpec.type = Undefined THEN "frames"
                                   ELSE layerSpec.type))
        align == toLowerCase(String(IF layerSpec.align = Undefined THEN "screen"
                                    ELSE layerSpec.align))
        safeAlign == IF align = "bg" THEN "bg" ELSE "screen"
    IN  IF type = "image"
        THEN IF layerSpec.src = Undefined
             THEN Resolved(NullAsset,
                           warnOnce(w, <<levelId, layerName, "missingSrc">>))
             ELSE IF loads(layerSpec.src)
             THEN Resolved([kind |-> "image", img |-> layerSpec.src,
                            align |-> safeAlign], w)
             ELSE Resolved(NullAsset,
                           warnOnce(w, <<levelId, layerName, "loadFail">>))
        ELSE IF type = "frames"
        THEN IF layerSpec.count = 0 THEN Resolved(NullAsset, w)
             ELSE IF layerSpec.folder = Undefined
             THEN Resolved(NullAsset,
                           warnOnce(w, <<levelId, layerName, "missingFolder">>))
             ELSE IF loads(layerSpec.folder)
             THEN Resolved([kind |-> "frames", frames |-> layerSpec.count,
                            fps |-> IF layerSpec.fps = 0 THEN DefaultLayerFps
                                    ELSE layerSpec.fps,
                            timer |-> 0, frameIndex |-> 0,
                            align |-> safeAlign], w)
             ELSE Resolved(NullAsset,
                           warnOnce(w, <<levelId, layerName, "loadFail">>))
        ELSE Resolved(NullAsset,
                      warnOnce(w, <<levelId, layerName, "unsupportedType">>))

\* main.js: frames layers only; (layerSpec.type || "frames").toLowerCase()
\* throws a TypeError when type is not a string
loadOptionalLayerMain(levelId, layerSpec, layerName, w) ==
  IF ~layerSpec.given THEN Resolved(NullAsset, w)
  ELSE IF layerSpec.type = JsNumber THEN Thrown(w)
  ELSE
    LET type == toLowerCase(IF layerSpec.type = Undefined THEN "frames"
                            ELSE layerSpec.type)
    IN  IF type = "frames"
        THEN IF layerSpec.count = 0 THEN Resolved(NullAsset, w)
             ELSE IF layerSpec.folder = Undefined
             THEN Resolved(NullAsset,
                           warnOnce(w, <<levelId, layerName, "missingFolder">>))
             ELSE IF loads(layerSpec.folder)
             THEN Resolved([kind |-> "frames", frames |-> layerSpec.count,
                            fps |-> IF layerSpec.fps = 0 THEN DefaultLayerFps
                                    ELSE layerSpec.fps,
                            timer |-> 0, frameIndex |-> 0], w)
             ELSE Resolved(NullAsset,
                           warnOnce(w, <<levelId, layerName, "loadFail">>))
        ELSE Resolved(NullAsset,
                      warnOnce(w, <<levelId, layerName, "unsupportedType">>))

\* the layer fields loadLevels passes to loadOptionalLayer, in this order
LayerNames(ver) ==
  IF ver = "carousel" THEN <<"layer1", "layer2", "layer3", "layer4">>
  ELSE <<"layer1", "layer2">>

\* the awaits `const l1 = await loadOptionalLayer(...)`, ..., from the k-th
\* on: the assets in order, or thrown as soon as one call rejects
RECURSIVE loadLayers(_, _, _, _, _)
loadLayers(ver, levelId, lvl, k, w) ==
  IF k > Len(LayerNames(ver)) THEN [thrown |-> FALSE, assets |-> <<>>, w |-> w]
  ELSE
    LET name == LayerNames(ver)[k]
        r == IF ver = "carousel"
             THEN loadOptionalLayer(levelId, Field(lvl, name, NoLayer), name, w)
             ELSE loadOptionalLayerMain(levelId, Field(lvl, name, NoLayer),
                                        name, w)
    IN  IF r.thrown THEN [thrown |-> TRUE, assets |-> <<>>, w |-> r.w]
        ELSE LET rest == loadLayers(ver, levelId, lvl, k + 1, r.w)
             IN  [thrown |-> rest.thrown,
                  assets |-> IF rest.thrown THEN <<>>
                             ELSE <<r.asset>> \o rest.assets,
                  w |-> rest.w]

\* levelAssets.set(key, bundle)
MapSet(map, key, bundle) ==
  [k \in DOMAIN map \cup {key} |-> IF k = key THEN bundle ELSE map[k]]

\* the object loadLevels stores in levelAssets
Bundle(ver, bgImg, fgImg, as) ==
  IF ver = "carousel"
  THEN [bgImg |-> bgImg, fgImg |-> fgImg,
        l1 |-> as[1], l2 |-> as[2], l3 |-> as[3], l4 |-> as[4]]
  ELSE [bgImg |-> bgImg, fgImg |-> fgImg, l1 |-> as[1], l2 |-> as[2]]

\* One iteration of `for (const lvl of json.levels)`.
\* acc = [loaded, assets, w]: loadedLevels, levelAssets and the warnings.
loadLevel(ver, lvl, acc) ==
  LET rawId == Field(lvl, "id", Undefined)
      id == IF rawId = Undefined THEN "(missing id)" ELSE rawId
      bgSrc == Field(lvl, "background", "missing")
  IN  IF bgSrc = "missing" THEN acc                \* continue
      ELSE IF ~loads(bgSrc) THEN acc                \* catch: level excluded
      ELSE
        LET fgSrc == Field(lvl, "foreground", Undefined)
            fgImg == IF fgSrc # Undefined /\ loads(fgSrc) THEN fgSrc
                     ELSE NullImg
            w1 == IF fgSrc # Undefined /\ ~loads(fgSrc)
                  THEN warnOnce(acc.w, <<id, "foreground", "loadFail">>)
                  ELSE acc.w
            \* part_000 passes id, main.js passes lvl.id
            layers == loadLayers(ver, IF ver = "carousel" THEN id ELSE rawId,
                                 lvl, 1, w1)
            key == IF ver = "carousel" THEN id ELSE rawId
        IN  IF layers.thrown
            THEN [acc EXCEPT !.w = layers.w]        \* catch: level excluded
            ELSE [loaded |-> Append(acc.loaded, lvl),
                  assets |-> MapSet(acc.assets, key,
                                    Bundle(ver, bgSrc, fgImg, layers.assets)),
                  w |-> layers.w]

RECURSIVE loadLevelsFrom(_, _, _, _)
loadLevelsFrom(ver, levels, k, acc) ==
  IF k > Len(levels) THEN acc
  ELSE loadLevelsFrom(ver, levels, k + 1, loadLevel(ver, levels[k], acc))

\* loadLevels up to `levelData = loadedLevels`: thrown, or the loaded levels;
\* in both cases levelAssets and the warnings as the loop left them
loadedLevels(ver, doc, acc) ==
  IF ~doc.available \/ Len(doc.levels) = 0
  THEN [thrown |-> TRUE, acc |-> acc]
  ELSE LET r == loadLevelsFrom(ver, doc.levels, 1, acc)
       IN  [thrown |-> Len(r.loaded) = 0, acc |-> r]

\* ------------------------------------------------- level entries with assets
\* Layer specs of data/levels.json, one for each path of loadOptionalLayer.
LayerSpec(type, src, count, folder, fps, align) ==
  [given |-> TRUE, type |-> type, src |-> src, count |-> count,
   folder |-> folder, fps |-> fps, align |-> align]

ImageOk == LayerSpec("image", "ok", 0, Undefined, 0, "bg")
ImageNoSrc == LayerSpec("image", Undefined, 0, Undefined, 0, Undefined)
ImageFail == LayerSpec("IMAGE", "fail", 0, Undefined, 0, "BG")
FramesOk == LayerSpec(Undefined, Undefined, 2, "ok", 0, Undefined)
FramesNoCount == LayerSpec("frames", Undefined, 0, "ok", 0, Undefined)
FramesNoFolder == LayerSpec("FRAMES", Undefined, 2, Undefined, 0, "screen")
FramesFail == LayerSpec("frames", Undefined, 3, "fail", 6, "bg")
Unsupported == LayerSpec("video", "ok", 2, "ok", 0, Undefined)
NumberType == LayerSpec(JsNumber, "ok", 2, "ok", 0, Undefined)

LayerSpecs ==
  {ImageOk, ImageNoSrc, ImageFail, FramesOk, FramesNoCount, FramesNoFolder,
   FramesFail, Unsupported, NumberType}

SlotNames == {"layer1", "layer2", "layer3", "layer4"}

\* a level entry: id, background, foreground and the four layer fields
\* (Undefined, "missing" and NoLayer stand for a field the entry leaves out)
LevelEntry(id, background, foreground) ==
  [id |-> id, background |-> background, isHome |-> FALSE,
   foreground |-> foreground, layer1 |-> NoLayer, layer2 |-> NoLayer,
   layer3 |-> NoLayer, layer4 |-> NoLayer]

\* the entries that give at most n of the layer fields of `names`, each from
\* `specs`
RECURSIVE WithLayers(_, _, _, _)
WithLayers(entries, names, specs, n) ==
  IF n = 0 THEN entries
  ELSE LET more == {[e EXCEPT ![name] = sp] :
                      e \in {x \in entries : loads(x.background)},
                      name \in names, sp \in specs}
       IN  entries \cup WithLayers(more, names, specs, n - 1)

\* one level, up to MaxConfigured layers of any kind
LevelDocs ==
  LET plain == {LevelEntry(id, bg, fg) :
                  id \in {"a", Undefined}, bg \in {"ok", "fail", "missing"},
                  fg \in {Undefined, "ok", "fail"}}
  IN  {[available |-> TRUE, levels |-> <<e>>] :
         e \in WithLayers(plain, SlotNames, LayerSpecs, MaxConfigured)}

\* up to MaxAssetLevels levels, with or without ids of their own, each with
\* at most a layer1
AssetDocs ==
  LET plain == {LevelEntry(id, bg, fg) :
                  id \in {"a", "b", Undefined},
                  bg \in {"ok", "ok2", "fail", "missing"},
                  fg \in {Undefined, "fail"}}
      entries == WithLayers(plain, {"layer1"},
                            {FramesOk, Unsupported, NumberType}, 1)
  IN  {[available |-> TRUE, levels |-> l] :
         l \in SeqsUpTo(entries, MaxAssetLevels)}

\* the page URL: ?debug=<debug>&level=<level> (NoParam: no level parameter)
NoParam == -1
Urls == [debug : BOOLEAN, level : {NoParam} \cup 0..(MaxLevels + 1)]
Versions == {"carousel", "random"}
NoDebugUrl == [debug |-> FALSE, level |-> NoParam]

\* main.js: 0-based start index asked for by the URL, or Null
Null == -1
getDebugStartLevelIndex(u, ld) ==
  IF ~u.debug THEN Null
  ELSE IF u.level = NoParam THEN Null
  ELSE IF u.level < 1 THEN Null
  ELSE IF u.level - 1 >= Len(ld) THEN Null
  ELSE u.level - 1

\* main.js: state.levelIndex = debugIdx !== null ? debugIdx : randInt(...)
startLevelRandom(s, u, ld) ==
  LET debugIdx == getDebugStartLevelIndex(u, ld)
  IN  IF debugIdx # Null THEN {[s EXCEPT !.levelIndex = debugIdx]}
      ELSE {[s EXCEPT !.levelIndex = idx] : idx \in 0..(Len(ld) - 1)}

\* part_000: detect HOME, then seed the carousel
startLevelCarousel(s, ld) ==
  initCarouselWithHomeOrFallback([s EXCEPT !.homeIndex = findHomeIndex(ld)], ld)

\* ----------------------------------------------------------------- state
InitState ==
  [levelIndex |-> 0, transitioning |-> FALSE, transitionUntil |-> 0,
   lastEdge |-> "null", carousel |-> <<>>, carouselPos |-> 0, homeIndex |-> -1]

InitPlayer ==
  [x |-> (CanvasWidth \div 2) * 100, visible |-> TRUE, facing |-> 1,
   anim |-> "idle", renderW |-> InitRenderW]

\* const player = { ..., frameIndex: 0, frameTimer: 0, ... }
InitPlayerAnim ==
  [x |-> (CanvasWidth \div 2) * 100, visible |-> TRUE, facing |-> 1,
   anim |-> "idle", renderW |-> InitRenderW, frameIndex |-> 0,
   frameTimer |-> 0]

\* no document fixed beforehand
NoConfig == [available |-> FALSE, levels |-> <<>>]

\* the state the script sets up before boot, with the player record p
InitWith(p) ==
  /\ levelAssets = <<>>
  /\ seen = {}
  /\ warnLog = <<>>
  /\ heroFrames = [idle |-> 0, walk |-> 0]
  /\ levelData = <<>>
  /\ state = InitState
  /\ player = p
  /\ input = [left |-> FALSE, right |-> FALSE]
  /\ levelsPhase = "pending"
  /\ spritesPhase = "pending"
  /\ boot = "loading"
  /\ frame = [no |-> 0, level |-> -1, hero |-> FALSE, calls |-> <<>>]
  /\ rightRun = 0
  /\ ticks = 0

InitCommon == InitWith(InitPlayer)

Init ==
  InitCommon /\ version \in Versions /\ url = NoDebugUrl /\ config = NoConfig

InitDebug ==
  InitCommon /\ version \in Versions /\ url \in Urls /\ config = NoConfig

InitCarousel ==
  InitCommon /\ version = "carousel" /\ url = NoDebugUrl /\ config = NoConfig

\* --------------------------------------------------------------- loaders
\* loadLevels on a document drawn from docs
LoadLevelsOf(docs) ==
  /\ levelsPhase = "pending"
  /\ \E doc \in docs :
       LET r == loadedLevels(version, doc,
                             [loaded |-> <<>>, assets |-> levelAssets,
                              w |-> [seen |-> seen, log |-> warnLog]])
       IN  /\ levelAssets' = r.acc.assets
           /\ seen' = r.acc.w.seen
           /\ warnLog' = r.acc.w.log
           /\ IF r.thrown
              THEN /\ levelsPhase' = "failed"
                   /\ UNCHANGED <<levelData, state>>
              ELSE /\ levelData' = r.acc.loaded
                   /\ state' \in IF version = "carousel"
                                 THEN startLevelCarousel(state, r.acc.loaded)
                                 ELSE startLevelRandom(state, url, r.acc.loaded)
                   /\ levelsPhase' = "ok"
  /\ UNCHANGED <<player, input, spritesPhase, boot, version, url, frame,
                 rightRun, config, heroFrames, ticks>>

LoadLevels == LoadLevelsOf(Docs(MaxLevels))

\* loadLevels when the document is fixed beforehand
LoadConfig == LoadLevelsOf({config})

\* the number of frame_NN.png files a hero folder holds
FolderSizes == {0, WalkCount}

\* faulty variant: an empty folder is not an error
loadFrameSequenceAuto_EmptyOk(found) == [thrown |-> FALSE, frames |-> found]

\* part_000: frames are probed until the first missing one
loadFrameSequenceAuto(found) == [thrown |-> found = 0, frames |-> found]

\* main.js: `count` frames are requested, all of them must load
loadFrameSequence(found, count) == [thrown |-> found < count, frames |-> count]

\* loadFrameSequenceAuto throws when a folder holds no frame
LoadSprites ==
  /\ spritesPhase = "pending"
  /\ \E idleFound \in FolderSizes, walkFound \in FolderSizes :
       LET idle == IF version = "carousel" THEN loadFrameSequenceAuto(idleFound)
                   ELSE loadFrameSequence(idleFound,
                                          IF version = "proto"
                                          THEN ProtoIdleCount ELSE IdleCount)
           walk == IF version = "carousel" THEN loadFrameSequenceAuto(walkFound)
                   ELSE loadFrameSequence(walkFound,
                                          IF version = "proto"
                                          THEN ProtoWalkCount ELSE WalkCount)
       IN  IF idle.thrown \/ walk.thrown
           THEN /\ spritesPhase' = "failed"
                /\ UNCHANGED <<player, heroFrames>>
           ELSE /\ heroFrames' = [idle |-> idle.frames, walk |-> walk.frames]
                /\ IF idle.frames = 0        \* base.width of undefined
                   THEN /\ spritesPhase' = "failed"
                        /\ UNCHANGED player
                   ELSE /\ \E rw \in RenderWs :
                             player' = [player EXCEPT
                                          !.renderW = rw,
                                          !.x = clamp(player.x, 0, W - rw * 100)]
                        /\ spritesPhase' = "ok"
  /\ UNCHANGED <<levelData, state, input, levelsPhase, boot, version, url,
                 frame, rightRun, config, levelAssets, seen, warnLog, ticks>>

\* Promise.all([...]).then(() => requestAnimationFrame(loop))
BootRun ==
  /\ boot = "loading"
  /\ levelsPhase = "ok" /\ spritesPhase = "ok"
  /\ boot' = "running"
  /\ UNCHANGED <<levelData, state, player, input, levelsPhase, spritesPhase,
                 version, url, frame, rightRun>>
  /\ UNCHANGED <<loaderVars, ticks>>

\* .catch: the error text is drawn, the loop is never requested
BootError ==
  /\ boot = "loading"
  /\ levelsPhase = "failed" \/ spritesPhase = "failed"
  /\ boot' = "error"
  /\ UNCHANGED <<levelData, state, player, input, levelsPhase, spritesPhase,
                 version, url, frame, rightRun>>
  /\ UNCHANGED <<loaderVars, ticks>>

\* ------------------------------------------------------------ key events
\* faulty variant: the listener turns the player as well
KeyDown_TurnsPlayer(k) ==
  /\ input' = [input EXCEPT ![k] = TRUE]
  /\ player' = [player EXCEPT !.facing = IF k = "left" THEN -1 ELSE 1]
  /\ UNCHANGED <<levelData, state, levelsPhase, spritesPhase, boot,
                 version, url, frame, rightRun>>
  /\ UNCHANGED <<loaderVars, ticks>>

KeyDown(k) ==
  /\ input' = [input EXCEPT ![k] = TRUE]
  /\ UNCHANGED <<levelData, state, player, levelsPhase, spritesPhase, boot,
                 version, url, frame, rightRun>>
  /\ UNCHANGED <<loaderVars, ticks>>

KeyUp(k) ==
  /\ input' = [input EXCEPT ![k] = FALSE]
  /\ UNCHANGED <<levelData, state, player, levelsPhase, spritesPhase, boot,
                 version, url, frame, rightRun>>
  /\ UNCHANGED <<loaderVars, ticks>>

\* ------------------------------------------------------------------ loop
\* faulty variant: the right bound clamps without arming the transition
steadyStep_NoRightTrigger(s, p, in, dtMs, now) ==
  LET vx == (IF in.right THEN 1 ELSE 0) - (IF in.left THEN 1 ELSE 0)
      p1 == IF vx # 0 THEN [p EXCEPT !.facing = IF vx > 0 THEN 1 ELSE -1] ELSE p
      p2 == setAnim(p1, IF vx = 0 THEN "idle" ELSE "walk")
      x1 == p2.x + vx * ((Speed * 100 * dtMs) \div 1000)
      maxX == W - p2.renderW * 100
  IN  IF x1 <= 0 THEN triggerEdge(s, [p2 EXCEPT !.x = 0], "left", now)
      ELSE IF x1 >= maxX THEN <<s, [p2 EXCEPT !.x = maxX]>>
      ELSE <<s, [p2 EXCEPT !.x = x1]>>

\* ------------------------------------------------------- layer animation
\* Layer timers count in 1/TicksPerMs ms, which makes the frame interval
\* 1 / fps a whole number for every rate the model uses.
TicksPerMs == 3000

\* const spf = 1 / Math.max(1, layerAsset.fps || DEFAULT_LAYER_FPS)
spf(layerAsset) ==
  (1000 * TicksPerMs) \div
    Max(1, IF layerAsset.fps = 0 THEN DefaultLayerFps ELSE layerAsset.fps)

\* faulty variant: a single step for each call, as in `if (timer >= spf)`
catchUp_SingleStep(a) ==
  IF a.timer >= spf(a)
  THEN [a EXCEPT !.timer = @ - spf(a),
                 !.frameIndex = (@ + 1) % a.frames]
  ELSE a

\* while (layerAsset.timer >= spf) { timer -= spf; frameIndex = ... }
RECURSIVE catchUp(_)
catchUp(a) ==
  IF a.timer >= spf(a)
  THEN catchUp([a EXCEPT !.timer = @ - spf(a),
                         !.frameIndex = (@ + 1) % a.frames])
  ELSE a

\* drawOptionalLayerAsset / tickAndDrawOptionalLayer: the asset after the
\* call (dt in timer ticks); only a frames asset has state
drawOptionalLayerAsset(layerAsset, dt) ==
  IF layerAsset.kind # "frames" THEN layerAsset
  ELSE IF layerAsset.frames = 0 THEN layerAsset
  ELSE catchUp([layerAsset EXCEPT !.timer = @ + dt])

\* the layer fields of a bundle the loop draws
LayerKeys(ver) ==
  IF ver = "carousel" THEN {"l1", "l2", "l3", "l4"}
  ELSE IF ver = "proto" THEN {}
  ELSE {"l1", "l2"}

\* drawLayer1(dt) .. drawLayer4(dt) on the assets of the current level
\* (currentLevelAssets: levelAssets.get(lvl.id) || null)
drawLayers(ver, assets, ld, levelIndex, dt) ==
  IF (levelIndex + 1) \notin DOMAIN ld THEN assets
  ELSE LET key == Field(ld[levelIndex + 1], "id", Undefined)
       IN  IF key \notin DOMAIN assets THEN assets
           ELSE LET b == assets[key]
                IN  [assets EXCEPT ![key] =
                       [f \in DOMAIN b |->
                          IF f \in LayerKeys(ver)
                          THEN drawOptionalLayerAsset(b[f], dt)
                          ELSE b[f]]]

\* ------------------------------------------------------- hero animation
\* currentFps()
currentFps(ver, p) ==
  IF p.anim = "walk" THEN WalkFps
  ELSE IF ver = "carousel" THEN IdleFps
  ELSE IF ver = "proto" THEN ProtoIdleFps
  ELSE MainIdleFps

\* currentFrames().length
currentFrames(hf, p) == IF p.anim = "walk" THEN hf.walk ELSE hf.idle

\* 1 / fps, in timer ticks
interval(fps) == (1000 * TicksPerMs) \div fps

\* faulty variant: the frame index advances without the timer being lowered
animate_NoSubtract(ver, hf, p, dt) ==
  IF ~HasFrames(p) THEN p
  ELSE LET t == p.frameTimer + dt
           framesLen == IF currentFrames(hf, p) = 0 THEN 1
                        ELSE currentFrames(hf, p)
       IN  IF t >= interval(currentFps(ver, p))
           THEN [p EXCEPT !.frameTimer = t,
                          !.frameIndex = (@ + 1) % framesLen]
           ELSE [p EXCEPT !.frameTimer = t]

\* the "Animate" lines of the steady branch of loop (dt in timer ticks):
\* frameTimer += dt; if (frameTimer >= 1 / fps) { one step }
animate(ver, hf, p, dt) ==
  IF ~HasFrames(p) THEN p
  ELSE LET t == p.frameTimer + dt
           framesLen == IF currentFrames(hf, p) = 0 THEN 1
                        ELSE currentFrames(hf, p)
       IN  IF t >= interval(currentFps(ver, p))
           THEN [p EXCEPT !.frameTimer = t - interval(currentFps(ver, p)),
                          !.frameIndex = (@ + 1) % framesLen]
           ELSE [p EXCEPT !.frameTimer = t]

\* what drawPlayer writes: player.frameIndex = player.frameIndex % frames.length
\* (the predecessor script reads frames[player.frameIndex] as it is)
drawPlayer(ver, hf, p) ==
  IF ~HasFrames(p) THEN p
  ELSE IF ver = "proto" THEN p
  ELSE IF ~p.visible THEN p
  ELSE IF currentFrames(hf, p) = 0 THEN p
  ELSE [p EXCEPT !.frameIndex = @ % currentFrames(hf, p)]

\* The steady branch of loop: <<state, player>> after kinematics and the
\* edge test (dtMs: the clamped step, now: performance.now()).
steadyStep(s, p, in, dtMs, now) ==
  LET vx == (IF in.right THEN 1 ELSE 0) - (IF in.left THEN 1 ELSE 0)
      p1 == IF vx # 0 THEN [p EXCEPT !.facing = IF vx > 0 THEN 1 ELSE -1] ELSE p
      p2 == setAnim(p1, IF vx = 0 THEN "idle" ELSE "walk")
      x1 == p2.x + vx * ((Speed * 100 * dtMs) \div 1000)
      maxX == W - p2.renderW * 100
  IN  IF x1 <= 0 THEN triggerEdge(s, [p2 EXCEPT !.x = 0], "left", now)
      ELSE IF x1 >= maxX THEN triggerEdge(s, [p2 EXCEPT !.x = maxX], "right", now)
      ELSE <<s, [p2 EXCEPT !.x = x1]>>

\* predecessor script: the steady branch sets player.anim directly, the
\* frame counter is left as it is
steadyStepProto(s, p, in, dtMs, now) ==
  LET vx == (IF in.right THEN 1 ELSE 0) - (IF in.left THEN 1 ELSE 0)
      p1 == IF vx # 0 THEN [p EXCEPT !.facing = IF vx > 0 THEN 1 ELSE -1] ELSE p
      p2 == [p1 EXCEPT !.anim = IF vx = 0 THEN "idle" ELSE "walk"]
      x1 == p2.x + vx * ((ProtoSpeed * 100 * dtMs) \div 1000)
      maxX == W - p2.renderW * 100
  IN  IF x1 <= 0 THEN triggerEdge(s, [p2 EXCEPT !.x = 0], "left", now)
      ELSE IF x1 >= maxX THEN triggerEdge(s, [p2 EXCEPT !.x = maxX], "right", now)
      ELSE <<s, [p2 EXCEPT !.x = x1]>>

\* predecessor script: finishTransition draws a random level and resets the
\* frame counter itself
finishTransitionProto(s, p) ==
  {<<[s EXCEPT !.levelIndex = idx, !.transitioning = FALSE],
     LET placed == IF s.lastEdge = "left"
                   THEN [p EXCEPT !.x = W - p.renderW * 100 - EdgeInset * 100,
                                  !.facing = -1]
                   ELSE [p EXCEPT !.x = EdgeInset * 100, !.facing = 1]
     IN  IF HasFrames(p)
         THEN [placed EXCEPT !.anim = "idle", !.frameIndex = 0,
                             !.frameTimer = 0, !.visible = TRUE]
         ELSE [placed EXCEPT !.anim = "idle", !.visible = TRUE]>> :
   idx \in 0..(Len(levelData) - 1)}

\* the steady branch of the running script
steadyOutcome(s, p, in, dtMs, now) ==
  IF version = "proto" THEN steadyStepProto(s, p, in, dtMs, now)
  ELSE steadyStep(s, p, in, dtMs, now)

\* the outcomes of finishTransition in the running script
finishOutcomes(s, p) ==
  IF version = "carousel" THEN finishTransition(s, p)
  ELSE IF version = "proto" THEN finishTransitionProto(s, p)
  ELSE finishTransitionRandom(s, p)

\* history of the carousel moves (not program state)
nextRightRun(edge) ==
  IF edge = "left" \/ rightRun < 0 THEN -1
  ELSE Min(rightRun + 1, RunCap)

\* ------------------------------------------------------------ draw calls
\* faulty variant: the hero is drawn on top of everything
DrawOrder_PlayerLast(ver) ==
  IF ver = "carousel"
  THEN <<"background", "layer1", "layer2", "layer3", "layer4", "foreground",
         "player">>
  ELSE IF ver = "proto" THEN <<"background", "player">>
  ELSE <<"background", "layer1", "foreground", "layer2", "player">>

\* the draw functions the loop calls after clearRect, in the order of the calls
DrawOrder(ver) ==
  IF ver = "carousel"
  THEN <<"background", "layer1", "player", "layer2", "layer3", "layer4",
         "foreground">>
  ELSE IF ver = "proto" THEN <<"background", "player">>
  ELSE <<"background", "layer1", "player", "foreground", "layer2">>

\* the field of the bundle a draw function reads
BundleField == [background |-> "bgImg", foreground |-> "fgImg",
                layer1 |-> "l1", layer2 |-> "l2", layer3 |-> "l3",
                layer4 |-> "l4"]

\* the draw function of `role` reaches its drawImage: the hero is visible
\* and has a frame, the bundle of the current level holds an image for a
\* background or foreground, an image or a non-empty frame sequence for a layer
issuesDraw(role, assets, ld, levelIndex, hf, p) ==
  IF role = "player"
  THEN /\ p.visible
       /\ currentFrames(hf, p) > 0
       /\ HasFrames(p) => p.frameIndex < currentFrames(hf, p)
  ELSE /\ (levelIndex + 1) \in DOMAIN ld
       /\ LET key == Field(ld[levelIndex + 1], "id", Undefined)
          IN  /\ key \in DOMAIN assets
              /\ BundleField[role] \in DOMAIN assets[key]
              /\ LET a == assets[key][BundleField[role]]
                 IN  IF role \in {"background", "foreground"}
                     THEN a # NullImg
                     ELSE \/ a.kind = "image"
                          \/ a.kind = "frames" /\ a.frames > 0

\* the drawImage calls of one frame, by role, in the order they are issued
drawCalls(ver, assets, ld, levelIndex, hf, p) ==
  SelectSeq(DrawOrder(ver),
            LAMBDA role : issuesDraw(role, assets, ld, levelIndex, hf, p))

\* One call of loop(t), t = lastT + d; performance.now() = t + j.
TickBody ==
  /\ boot = "running"
  /\ \E d \in Deltas, j \in Jitters :
       LET dtMs == Min(MaxDtMs, d)
           s0 == [state EXCEPT !.transitionUntil = Max(0, @ - d)]
       IN
       /\ IF ~s0.transitioning
          THEN /\ state' = steadyOutcome(s0, player, input, dtMs, j)[1]
               /\ player' =
                    drawPlayer(version, heroFrames,
                               animate(version, heroFrames,
                                       steadyOutcome(s0, player, input, dtMs,
                                                     j)[2],
                                       dtMs * TicksPerMs))
               /\ rightRun' = rightRun
          ELSE IF j >= s0.transitionUntil
          THEN /\ \E o \in finishOutcomes(s0, player) :
                    state' = o[1] /\ player' = drawPlayer(version, heroFrames, o[2])
               /\ rightRun' = nextRightRun(s0.lastEdge)
          ELSE /\ state' = s0
               /\ player' = drawPlayer(version, heroFrames, player)
               /\ rightRun' = rightRun
       /\ levelAssets' = drawLayers(version, levelAssets, levelData,
                                    state'.levelIndex, dtMs * TicksPerMs)
  /\ frame' = [no |-> Min(frame.no + 1, 2), level |-> state'.levelIndex,
               hero |-> player'.visible,
               calls |-> drawCalls(version, levelAssets', levelData,
                                   state'.levelIndex, heroFrames, player')]
  /\ UNCHANGED <<levelData, input, levelsPhase, spritesPhase, boot, version, url>>
  /\ UNCHANGED <<config, seen, warnLog, heroFrames>>

Tick == TickBody /\ UNCHANGED ticks

\* the same call, counted, in a run of at most MaxTicks frames
TickCounted == ticks < MaxTicks /\ TickBody /\ ticks' = ticks + 1

Next ==
  \/ LoadLevels
  \/ LoadSprites
  \/ BootRun
  \/ BootError
  \/ \E k \in {"left", "right"} : KeyDown(k)
  \/ \E k \in {"left", "right"} : KeyUp(k)
  \/ Tick

Spec == Init /\ [][Next]_vars

\* Start-up under every page URL, no key pressed.
NextDebug ==
  \/ LoadLevels
  \/ LoadSprites
  \/ BootRun
  \/ BootError
  \/ Tick

SpecDebug == InitDebug /\ [][NextDebug]_vars

\* ------------------------------------------------- the carousel on its own
\* A completed edge transition of the carousel script, without the ticks in
\* between: the steady tick that clamps to `edge` and calls triggerEdge, then
\* the tick that calls finishTransition.
EdgeTransition(edge) ==
  /\ levelsPhase = "ok"
  /\ ~state.transitioning
  /\ LET tr == triggerEdge(state, player, edge, 0)
     IN  \E o \in finishTransition(tr[1], tr[2]) :
           state' = o[1] /\ player' = o[2]
  /\ rightRun' = nextRightRun(edge)
  /\ UNCHANGED <<levelData, input, levelsPhase, spritesPhase, boot, version,
                 url, frame>>
  /\ UNCHANGED <<loaderVars, ticks>>

NextCarousel ==
  \/ LoadLevelsOf(Docs(MaxRing))
  \/ EdgeTransition("left")
  \/ EdgeTransition("right")

SpecCarousel == InitCarousel /\ [][NextCarousel]_vars

\* -------------------------------------------------------- the boot sequence
\* Promise.all([loadLevels(), loadSprites()]) on a document fixed beforehand,
\* no key pressed: the two loads in either order, then the loop or the error.
InitBoot ==
  /\ InitCommon /\ version \in Versions /\ url = NoDebugUrl
  /\ config \in Docs(MaxLevels)

NextBoot ==
  \/ LoadConfig
  \/ LoadSprites
  \/ BootRun
  \/ BootError
  \/ Tick

SpecBoot == InitBoot /\ [][NextBoot]_vars

\* ------------------------------------------------------ loading the assets
\* loadLevels (part_000) on a one-level document with layers of every kind
InitLevel ==
  /\ InitCommon /\ version = "carousel" /\ url = NoDebugUrl
  /\ config \in LevelDocs

NextLevel == LoadConfig

SpecLevel == InitLevel /\ [][NextLevel]_vars

\* loadLevels of either script on a document of several levels
InitAssets ==
  /\ InitCommon /\ version \in Versions /\ url = NoDebugUrl
  /\ config \in AssetDocs

NextAssets == LoadConfig

SpecAssets == InitAssets /\ [][NextAssets]_vars

\* ------------------------------------------------------- animated layers
\* one level with an animated (or still) layer1 and possibly a still layer2
FrameCounts == {1, 3, MaxIntervals + 1}
LayerRates == {0, 6, 24}
LayerDocs ==
  {[available |-> TRUE,
    levels |-> <<[LevelEntry("a", "ok", Undefined)
                    EXCEPT !.layer1 = l1, !.layer2 = l2]>>] :
     l1 \in {LayerSpec("frames", Undefined, n, "ok", fps, "bg") :
               n \in FrameCounts, fps \in LayerRates} \cup {ImageOk},
     l2 \in {NoLayer, ImageOk}}

\* elapsed times one call may deliver, in timer ticks: whole frame intervals
\* of each rate, and 7 ms and 33 ms
LayerDts ==
  {k * spf([fps |-> fps]) : k \in 0..MaxIntervals, fps \in LayerRates}
    \cup {7 * TicksPerMs, MaxDtMs * TicksPerMs}

InitLayer ==
  /\ InitCommon /\ version \in Versions /\ url = NoDebugUrl
  /\ config \in LayerDocs

\* the layer calls of one frame, drawLayer1(dt) .. drawLayer4(dt), for an
\* arbitrary dt; frame.no counts the calls
DrawLayers(dt) ==
  /\ levelsPhase = "ok"
  /\ levelAssets' = drawLayers(version, levelAssets, levelData,
                               state.levelIndex, dt)
  /\ frame' = [frame EXCEPT !.no = Min(@ + 1, 2), !.level = state.levelIndex]
  /\ UNCHANGED <<levelData, state, player, input, levelsPhase, spritesPhase,
                 boot, version, url, rightRun, config, seen, warnLog,
                 heroFrames, ticks>>

NextLayer ==
  \/ LoadConfig
  \/ \E dt \in LayerDts : DrawLayers(dt)

SpecLayer == InitLayer /\ [][NextLayer]_vars

\* -------------------------------------------------------------- the stack
\* a sequence of one frame (main.js knows frame sequences only); its rate
\* makes every frame delta a whole number of intervals
OneFrame == LayerSpec("frames", Undefined, 1, "ok", 1000, "screen")

\* one level with any combination of foreground and layers, still images
\* that load or fail and one-frame sequences
DrawDocs ==
  {[available |-> TRUE,
    levels |-> <<[LevelEntry("a", "ok", fg)
                    EXCEPT !.layer1 = l1, !.layer2 = l2, !.layer3 = l3,
                           !.layer4 = l4]>>] :
     fg \in {Undefined, "ok", "fail"}, l1 \in {NoLayer, ImageOk, ImageFail},
     l2 \in {NoLayer, ImageOk, OneFrame}, l3 \in {NoLayer, ImageOk},
     l4 \in {NoLayer, ImageOk}}

\* the full game on one level of DrawDocs
InitDraw ==
  /\ InitCommon /\ version \in Versions /\ url = NoDebugUrl
  /\ config \in DrawDocs

NextDraw ==
  \/ LoadConfig
  \/ LoadSprites
  \/ BootRun
  \/ BootError
  \/ \E k \in {"left", "right"} : KeyDown(k)
  \/ \E k \in {"left", "right"} : KeyUp(k)
  \/ Tick

SpecDraw == InitDraw /\ [][NextDraw]_vars

\* --------------------------------------------------------- hero animation
\* two usable levels, the first one home or none
AnimDocs ==
  {[available |-> TRUE,
    levels |-> <<[background |-> "ok", isHome |-> h],
                 [background |-> "ok", isHome |-> FALSE]>>] : h \in BOOLEAN}

\* the full game with the hero's frame counter in the player record
InitAnim ==
  /\ InitWith(InitPlayerAnim) /\ version \in Versions /\ url = NoDebugUrl
  /\ config \in AnimDocs

NextAnim ==
  \/ LoadConfig
  \/ LoadSprites
  \/ BootRun
  \/ BootError
  \/ \E k \in {"left", "right"} : KeyDown(k)
  \/ \E k \in {"left", "right"} : KeyUp(k)
  \/ TickCounted

SpecAnim == InitAnim /\ [][NextAnim]_vars

\* ------------------------------------------------- the loop keeps running
\* part_000 on two levels; every call of loop ends with
\* requestAnimationFrame(loop), so a frame that can be drawn is drawn
InitLive ==
  /\ InitCommon /\ version = "carousel" /\ url = NoDebugUrl
  /\ config \in AnimDocs

NextLive ==
  \/ LoadConfig
  \/ LoadSprites
  \/ BootRun
  \/ BootError
  \/ \E k \in {"left", "right"} : KeyDown(k)
  \/ \E k \in {"left", "right"} : KeyUp(k)
  \/ Tick

SpecLive == InitLive /\ [][NextLive]_vars /\ WF_vars(Tick)

\* ------------------------------------------------- the predecessor script
\* levels of the predecessor's levels.json: { id, image }
ProtoLevels == [id : {"a", "b"}, image : {"ok", "fail"}]
ProtoDocs ==
  {[available |-> FALSE, levels |-> <<>>]} \cup
  {[available |-> TRUE, levels |-> l] : l \in SeqsUpTo(ProtoLevels, 2)}

\* levelImages after the image loads of `levels` from the k-th on (stored
\* in levelAssets): levelImages.set(lvl.id, img) for each image that loads
RECURSIVE loadImagesProto(_, _, _)
loadImagesProto(levels, k, map) ==
  IF k > Len(levels) THEN map
  ELSE loadImagesProto(levels, k + 1,
         IF loads(levels[k].image)
         THEN MapSet(map, levels[k].id, [bgImg |-> levels[k].image])
         ELSE map)

\* loadLevels of the predecessor: levelData is the whole array, one image
\* that fails rejects the load
LoadLevelsProto ==
  /\ levelsPhase = "pending"
  /\ version = "proto"
  /\ IF ~config.available \/ Len(config.levels) = 0
     THEN /\ levelsPhase' = "failed"
          /\ UNCHANGED <<levelData, levelAssets, state>>
     ELSE /\ levelData' = config.levels
          /\ levelAssets' = loadImagesProto(config.levels, 1, levelAssets)
          /\ IF \E k \in 1..Len(config.levels) : ~loads(config.levels[k].image)
             THEN levelsPhase' = "failed" /\ UNCHANGED state
             ELSE /\ state' \in startLevelRandom(state, url, config.levels)
                  /\ levelsPhase' = "ok"
  /\ UNCHANGED <<player, input, spritesPhase, boot, version, url, frame,
                 rightRun, config, seen, warnLog, heroFrames, ticks>>

InitProto ==
  /\ InitWith(InitPlayerAnim) /\ version = "proto" /\ url = NoDebugUrl
  /\ config \in ProtoDocs

NextProto ==
  \/ LoadLevelsProto
  \/ LoadSprites
  \/ BootRun
  \/ BootError
  \/ \E k \in {"left", "right"} : KeyDown(k)
  \/ \E k \in {"left", "right"} : KeyUp(k)
  \/ TickCounted

SpecProto == InitProto /\ [][NextProto]_vars

\* =================================================================== claims
Loaded == levelsPhase = "ok"
CarouselLoaded == version = "carousel" /\ Loaded
HomeSeeded == CarouselLoaded /\ state.homeIndex # -1
NumLevels == Len(levelData)
NumNonHome == Len(nonHomeIndices(state))
Occurrences(s, v) == Cardinality({k \in 1..Len(s) : s[k] = v})
NoDuplicates(s) == \A a, b \in 1..Len(s) : s[a] = s[b] => a = b
AllUsed(s) == usedNonHomeCount(s) >= Len(nonHomeIndices(s))
EveryNonHomeOnce(s) ==
  \A i \in Range(nonHomeIndices(s)) : Occurrences(s.carousel, i) = 1

\* C1 (state part): in a home-seeded carousel with N >= 1 non-home levels,
\* after n <= N rightward moves and no other move the carousel is the home
\* index followed by n distinct non-home indices with the cursor on the last
\* one, so after N moves every non-home index occurs exactly once; after the
\* (N+1)-th the carousel still has N+1 entries and the cursor is back on an
\* entry of it.
C1_AfterRun ==
  (HomeSeeded /\ NumNonHome >= 1 /\ rightRun >= 0 /\ rightRun <= NumNonHome + 1) =>
    LET n == Min(rightRun, NumNonHome)
    IN  /\ Len(state.carousel) = n + 1
        /\ state.carousel[1] = state.homeIndex
        /\ \A k \in 2..(n + 1) : ~isHomeIndex(state, state.carousel[k])
        /\ NoDuplicates(state.carousel)
        /\ rightRun <= NumNonHome => state.carouselPos = rightRun
        /\ rightRun >= NumNonHome => EveryNonHomeOnce(state)
        /\ rightRun = NumNonHome + 1 =>
              /\ state.carouselPos = 0
              /\ state.levelIndex = state.homeIndex

\* C1: carousel exhaustion. After N consecutive carouselMoveRight calls from
\* the home-seeded start every non-home index has appeared exactly once in
\* state.carousel, and the (N+1)-th call inserts nothing and returns an index
\* that is already in the carousel.
C1_CarouselExhaustion ==
  [][/\ C1_AfterRun'
     /\ (HomeSeeded /\ NumNonHome >= 1 /\ rightRun = NumNonHome
           /\ rightRun' = NumNonHome + 1) =>
          /\ state'.carousel = state.carousel
          /\ state'.levelIndex \in Range(state.carousel)]_vars

C1_Witness ==
  HomeSeeded /\ NumNonHome >= 3 /\ rightRun = NumNonHome + 1

Interior(s) == 0 < s.carouselPos /\ s.carouselPos < Len(s.carousel) - 1

\* C2: from a cursor that is at neither end of the recorded sequence,
\* carouselMoveRight followed at once by carouselMoveLeft returns the level
\* index and the cursor it started from, and neither call changes
\* state.carousel.
C2_RightThenLeftInverse ==
  (CarouselLoaded /\ Interior(state)) =>
    \A r \in carouselMoveRight(state) :
      /\ r.st.carousel = state.carousel
      /\ \A l \in carouselMoveLeft([r.st EXCEPT !.levelIndex = r.ret]) :
           /\ l.ret = state.levelIndex
           /\ l.st.carouselPos = state.carouselPos
           /\ l.st.carousel = state.carousel

\* an interior cursor reached by walking back, with a level still unused
C2_Witness ==
  /\ CarouselLoaded /\ Interior(state)
  /\ ~AllUsed(state)
  /\ rightRun = -1

\* C3, one move: once every non-home level is in state.carousel a move never changes
\* state.carousel and moves carouselPos by one position circularly; before
\* that, a move past the right (left) end appends (prepends) exactly one
\* non-home index that was not in the carousel.
C3_RightMoveOk ==
  LET len == Len(state.carousel)
  IN  /\ AllUsed(state) =>
           /\ state'.carousel = state.carousel
           /\ state'.carouselPos = (state.carouselPos + 1) % len
      /\ (~AllUsed(state) /\ state.carouselPos = len - 1) =>
           /\ Len(state'.carousel) = len + 1
           /\ SubSeq(state'.carousel, 1, len) = state.carousel
           /\ state'.carousel[len + 1] \notin Range(state.carousel)
           /\ state'.carousel[len + 1] \in Range(nonHomeIndices(state))
           /\ state'.carouselPos = len

C3_LeftMoveOk ==
  LET len == Len(state.carousel)
  IN  /\ AllUsed(state) =>
           /\ state'.carousel = state.carousel
           /\ state'.carouselPos = (state.carouselPos - 1 + len) % len
      /\ (~AllUsed(state) /\ state.carouselPos = 0) =>
           /\ Len(state'.carousel) = len + 1
           /\ SubSeq(state'.carousel, 2, len + 1) = state.carousel
           /\ state'.carousel[1] \notin Range(state.carousel)
           /\ state'.carousel[1] \in Range(nonHomeIndices(state))
           /\ state'.carouselPos = 0

\* C3 (both directions): every completed rightward move satisfies
\* C3_RightMoveOk and every leftward move C3_LeftMoveOk.
C3_FixedRingAfterExhaustion ==
  [][/\ EdgeTransition("right") => C3_RightMoveOk
     /\ EdgeTransition("left") => C3_LeftMoveOk]_vars

\* a ring of four levels that was completed by prepending, cursor wrapped
C3_Witness ==
  /\ CarouselLoaded /\ NumLevels = 4 /\ AllUsed(state)
  /\ state.carousel[Len(state.carousel)] = state.homeIndex
  /\ state.carouselPos = Len(state.carousel) - 1
  /\ rightRun = -1

\* C4: no level index occurs twice in state.carousel, with or without a home
\* level, so the carousel is never longer than the pool of usable levels.
C4_NoIndexDrawnTwice ==
  CarouselLoaded =>
    /\ NoDuplicates(state.carousel)
    /\ Len(state.carousel) <= NumLevels
    /\ Range(state.carousel) \subseteq 0..(NumLevels - 1)

\* every level of a pool without home drawn, in both directions
C4_Witness ==
  /\ CarouselLoaded /\ state.homeIndex = -1
  /\ NumLevels >= 3 /\ Len(state.carousel) = NumLevels
  /\ rightRun = -1

Edges == {"left", "right"}
MaxX == W - player.renderW * 100
\* the tick that calls finishTransition
Finishing == state.transitioning /\ ~state'.transitioning

\* C5: while state.transitioning is true a call of triggerEdge, with either
\* edge and at any clock value, leaves state (transitionUntil, lastEdge,
\* transitioning, ...) and player (visible, ...) as they are.
C5_TriggerEdgeIdempotent ==
  state.transitioning =>
    \A edge \in Edges, now \in 0..(2 * TransitionMs) :
      triggerEdge(state, player, edge, now) = <<state, player>>

\* transitioning for a while already, the left edge recorded
C5_Witness ==
  /\ state.transitioning
  /\ state.lastEdge = "left"
  /\ state.transitionUntil < TransitionMs
  /\ ~player.visible

\* C6: in the tick that calls finishTransition the player ends (and is drawn)
\* 2 pixels inside the edge opposite to the one that triggered, facing away
\* from the edge it is placed at, whatever keys are held.
C6_ReappearAtOppositeEdge ==
  [][Finishing =>
       /\ state.lastEdge \in Edges
       /\ state.lastEdge = "right" =>
            player'.x = EdgeInset * 100 /\ player'.facing = 1
       /\ state.lastEdge = "left" =>
            player'.x = MaxX - EdgeInset * 100 /\ player'.facing = -1
       /\ player'.visible /\ frame'.hero]_vars

\* just placed at the right after a left-edge transition: still idle although
\* the left key is held
C6_Witness ==
  /\ boot = "running" /\ ~state.transitioning
  /\ rightRun = -1
  /\ player.x = MaxX - EdgeInset * 100 /\ player.facing = -1
  /\ input.left /\ ~input.right /\ player.anim = "idle"
  /\ player.renderW = 4

HasHomeFlag == \E k \in 1..Len(levelData) : levelData[k].isHome

\* C7: from loadLevels until the first carousel move, if a usable level is
\* flagged home then state.carousel = [homeIndex], carouselPos = 0 and
\* levelIndex = homeIndex (a home-flagged level); otherwise the carousel holds
\* exactly one index of the usable pool, carouselPos = 0 and levelIndex is
\* that index.
C7_StartupSeeding ==
  (CarouselLoaded /\ rightRun = 0) =>
    /\ state.carouselPos = 0
    /\ Len(state.carousel) = 1
    /\ state.levelIndex = state.carousel[1]
    /\ state.levelIndex \in 0..(NumLevels - 1)
    /\ HasHomeFlag =>
         /\ state.homeIndex # -1
         /\ state.carousel = <<state.homeIndex>>
         /\ levelData[state.homeIndex + 1].isHome
    /\ ~HasHomeFlag => state.homeIndex = -1

\* the home level is the last of three and seeds the carousel
C7_Witness ==
  /\ CarouselLoaded /\ rightRun = 0
  /\ NumLevels = 3 /\ state.homeIndex = 2
  /\ state.carousel = <<2>>
  /\ boot = "running"

OneHomeFlag == Cardinality({k \in 1..Len(levelData) : levelData[k].isHome}) = 1

\* C8: with a home level among at least two usable levels, the first frame
\* draws the home level, and after the first completed transition, if it was
\* triggered at the right edge, the level index (and the level drawn) differs
\* from the home index and, when one level only is flagged home, is not a
\* home-flagged level.
C8_FirstMoveLeavesHome ==
  (HomeSeeded /\ NumLevels >= 2) =>
    /\ frame.no = 1 => frame.level = state.homeIndex
    /\ rightRun = 1 =>
         /\ state.levelIndex # state.homeIndex
         /\ frame.level = state.levelIndex
         /\ OneHomeFlag => ~levelData[state.levelIndex + 1].isHome

C8_Witness ==
  /\ HomeSeeded /\ NumLevels = 3 /\ OneHomeFlag
  /\ rightRun = 1
  /\ frame.level # state.homeIndex

\* C9: with exactly one usable level a completed transition leaves
\* state.carousel, carouselPos and levelIndex (the single index 0) as they
\* were, and still puts the player at the opposite edge.
C9_SingleLevelNoOp ==
  [][(CarouselLoaded /\ NumLevels = 1 /\ Finishing) =>
       /\ state'.levelIndex = state.levelIndex
       /\ state'.levelIndex = 0
       /\ state'.carousel = state.carousel
       /\ state'.carousel = <<0>>
       /\ state'.carouselPos = state.carouselPos
       /\ player'.x = IF state.lastEdge = "left" THEN MaxX - EdgeInset * 100
                                                  ELSE EdgeInset * 100]_vars

\* a single level, two transitions at the right edge done
C9_Witness ==
  /\ CarouselLoaded /\ NumLevels = 1
  /\ rightRun = 2
  /\ ~state.transitioning /\ player.x = EdgeInset * 100

\* C10: at the first frame the level drawn is the index the URL asks for
\* whenever getDebugStartLevelIndex resolves it, in the carousel script as in
\* main.js; when it does not, the default start (home-seeded) is drawn.
C10_DebugOverride ==
  (Loaded /\ frame.no = 1) =>
    LET debugIdx == getDebugStartLevelIndex(url, levelData)
    IN  /\ debugIdx # Null => frame.level = debugIdx
        /\ (debugIdx = Null /\ HomeSeeded) => frame.level = state.homeIndex

\* C11: at the draw point of every tick the hero is drawn exactly when the
\* machine is steady: player.visible is false exactly while
\* state.transitioning is true, from the tick that calls triggerEdge up to,
\* not including, the tick that calls finishTransition.
C11_HiddenWhileTransitioning ==
  /\ player.visible <=> ~state.transitioning
  /\ frame.no >= 1 => (frame.hero <=> ~state.transitioning)

\* a frame drawn in the middle of a transition, after the arming tick
C11_Witness ==
  /\ state.transitioning /\ frame.no = 2
  /\ state.transitionUntil < TransitionMs
  /\ ~frame.hero

\* C16: for every follow strength, every zoom >= 1 and every player
\* position, the pan of drawZoomPanFollow is at most
\* min((zoom * W - W) / 2, MAX_PAN_PX) in magnitude, and the image drawn
\* covers the viewport: x <= 0 and x + drawW >= W.
C16_PanBound ==
  \A zoom \in Zooms, followStrength \in Follows :
    LET d == drawZoomPanFollow(zoom, followStrength, player)
        bound == Min(CanvasWidth * (zoom - 100), MaxPanPx * 200) * d.scale
    IN  /\ -bound <= d.pan /\ d.pan <= bound
        /\ d.x <= 0
        /\ d.x + d.drawW >= d.W

\* the hero at the right bound: the background pans, and with a large zoom
\* and full follow the pan is the ceiling MAX_PAN_PX
C16_Witness ==
  /\ boot = "running" /\ player.x = MaxX
  /\ drawZoomPanFollow(BgZoom, BgFollow, player).pan > 0
  /\ LET d == drawZoomPanFollow(1100, FollowDen, player)
     IN  d.pan = MaxPanPx * 200 * d.scale

\* the carousel fields are what one carousel move in the direction of
\* lastEdge leaves, and the level index is the index that move returned
MovedInEdgeDirection ==
  \E m \in (IF state.lastEdge = "left" THEN carouselMoveLeft(state)
                                        ELSE carouselMoveRight(state)) :
    /\ state'.carousel = m.st.carousel
    /\ state'.carouselPos = m.st.carouselPos
    /\ state'.levelIndex = m.ret

CarouselUntouched ==
  /\ state'.carousel = state.carousel
  /\ state'.carouselPos = state.carouselPos

\* C18 (as claimed, for the code of both scripts): the tick that finishes a
\* transition moves the carousel once, leftward if lastEdge is "left" and
\* rightward if it is "right", and state.levelIndex becomes the index the
\* move returned; no carousel move happens at any other time.
C18_CarouselMovedInEdgeDirection ==
  [][Loaded =>
       IF Finishing THEN MovedInEdgeDirection
       ELSE CarouselUntouched /\ state'.levelIndex = state.levelIndex]_vars

\* C18 (amended): in the carousel script the finishing tick moves the
\* carousel once in the direction of lastEdge and state.levelIndex becomes
\* the index the move returned; in main.js, which has no carousel, it sets
\* state.levelIndex to some index of the usable pool whatever the edge.  In
\* both scripts no other step after loading changes the carousel, its cursor
\* or the level index.
C18_MoveOncePerTransition ==
  [][Loaded =>
       IF Finishing
       THEN IF version = "carousel" THEN MovedInEdgeDirection
            ELSE /\ CarouselUntouched
                 /\ state'.levelIndex \in 0..(NumLevels - 1)
       ELSE CarouselUntouched /\ state'.levelIndex = state.levelIndex]_vars

\* a left-edge transition has prepended a level in front of the seed
C18_Witness ==
  /\ CarouselLoaded /\ boot = "running" /\ ~state.transitioning
  /\ rightRun = -1
  /\ Len(state.carousel) = 2 /\ state.carouselPos = 0
  /\ state.levelIndex = state.carousel[1]

\* the position loop integrates in a steady tick
Integrated(d) ==
  LET vx == (IF input.right THEN 1 ELSE 0) - (IF input.left THEN 1 ELSE 0)
  IN  player.x + vx * ((Speed * 100 * Min(MaxDtMs, d)) \div 1000)

\* C19: a steady tick enters transitioning exactly when the integrated
\* position is <= 0 (lastEdge becomes "left", x becomes 0) or >= W - renderW
\* (lastEdge becomes "right", x becomes W - renderW); a position strictly
\* inside the bounds is kept, the machine stays steady and lastEdge is
\* unchanged.
C19_EdgeArming ==
  [][(Tick /\ ~state.transitioning) =>
       \E d \in Deltas :
         LET x1 == Integrated(d)
         IN  /\ state'.transitioning <=> (x1 <= 0 \/ x1 >= MaxX)
             /\ x1 <= 0 => state'.lastEdge = "left" /\ player'.x = 0
             /\ (x1 > 0 /\ x1 >= MaxX) =>
                  state'.lastEdge = "right" /\ player'.x = MaxX
             /\ (0 < x1 /\ x1 < MaxX) =>
                  state'.lastEdge = state.lastEdge /\ player'.x = x1]_vars

\* armed at the right bound in this very tick, after an earlier transition at
\* the left one
C19_Witness ==
  /\ state.transitioning /\ state.lastEdge = "right"
  /\ state.transitionUntil >= TransitionMs
  /\ player.x = MaxX /\ rightRun = -1

\* C20: once the sprites are loaded, 0 <= player.x <= W - player.renderW in
\* every state, whatever the sprite width, also right after
\* finishTransition.
C20_PositionInBounds ==
  spritesPhase = "ok" => 0 <= player.x /\ player.x <= MaxX

\* the document names at least one level whose background loads
SomeBackgroundLoads(doc) ==
  /\ doc.available
  /\ \E k \in 1..Len(doc.levels) : loads(doc.levels[k].background)

\* C15 (state part): the loop runs only after both loads succeeded, on a
\* document with a level that passed background validation and with at
\* least one frame of each hero animation; after a failed load no frame is
\* ever drawn and the error handler is what remains to run.
C15_AfterBoot ==
  /\ boot = "running" =>
       /\ levelsPhase = "ok" /\ spritesPhase = "ok"
       /\ SomeBackgroundLoads(config) /\ Len(levelData) >= 1
       /\ heroFrames.idle >= 1 /\ heroFrames.walk >= 1
  /\ (levelsPhase = "failed" \/ spritesPhase = "failed") =>
       /\ boot # "running" /\ frame.no = 0
       /\ boot = "loading" => ENABLED BootError
  /\ ~SomeBackgroundLoads(config) => levelsPhase # "ok"
  /\ frame.no >= 1 => boot = "running"

\* C15: fatal startup.  If the level document is missing or empty, if no
\* level passes background validation or if a hero animation has no frame,
\* the frame loop is never scheduled, whatever the order in which
\* loadLevels and loadSprites finish, and the error text is drawn; the loop
\* is scheduled only after both loads have succeeded.
C15_FatalStartup ==
  [][/\ C15_AfterBoot'
     /\ boot = "error" => boot' = "error"
     /\ boot' = "error" => (levelsPhase' = "failed" \/ spritesPhase' = "failed")
     /\ (boot = "loading" /\ boot' = "running") =>
          levelsPhase = "ok" /\ spritesPhase = "ok"]_vars

\* every level of the document failed background validation, the sprites
\* loaded, the error was drawn
C15_Witness ==
  /\ boot = "error" /\ levelsPhase = "failed" /\ spritesPhase = "ok"
  /\ config.available /\ Len(config.levels) = MaxLevels
  /\ frame.no = 0

\* ------------------------------------------------------------------- C12
HasLoadableBackground(lvl) == loads(Field(lvl, "background", "missing"))

RECURSIVE Filter(_, _)
Filter(levels, k) ==
  IF k > Len(levels) THEN <<>>
  ELSE (IF HasLoadableBackground(levels[k]) THEN <<levels[k]>> ELSE <<>>)
       \o Filter(levels, k + 1)

\* C12: once loadLevels has run on the configured document, the load failed
\* only if no configured level has a background that loads, and otherwise
\* levelData is exactly the levels whose background loads, in configuration
\* order.
C12_BackgroundValidation ==
  /\ levelsPhase = "ok" => levelData = Filter(config.levels, 1)
  /\ levelsPhase = "failed" => Filter(config.levels, 1) = <<>>

\* ------------------------------------------------------------------- C13
\* the level of a one-level document, and the slots of its bundle
TheLevel == config.levels[1]
TheKey == IF TheLevel.id = Undefined THEN "(missing id)" ELSE TheLevel.id
BundleSlot == [layer1 |-> "l1", layer2 |-> "l2", layer3 |-> "l3",
               layer4 |-> "l4", foreground |-> "fgImg"]
Roles == SlotNames \cup {"foreground"}
Absent(role) == IF role = "foreground" THEN NullImg ELSE NullAsset

\* what the entry asks for in a role cannot be delivered
Misconfigured(sp) ==
  /\ sp.given
  /\ LET type == toLowerCase(String(IF sp.type = Undefined THEN "frames"
                                    ELSE sp.type))
     IN  CASE type = "image" -> sp.src = Undefined \/ ~loads(sp.src)
           [] type = "frames" ->
                sp.count = 0 \/ sp.folder = Undefined \/ ~loads(sp.folder)
           [] OTHER -> TRUE

Fails(lvl, role) ==
  IF role = "foreground"
  THEN lvl.foreground # Undefined /\ ~loads(lvl.foreground)
  ELSE Misconfigured(lvl[role])

\* the same entry with a role that succeeds
Repaired(lvl, role) ==
  IF role = "foreground" THEN {[lvl EXCEPT !.foreground = "ok"]}
  ELSE {[lvl EXCEPT ![role] = sp] : sp \in {ImageOk, FramesOk}}

\* the bundle loadLevels stores for a one-level document with this entry
BundleOf(lvl) ==
  loadedLevels("carousel", [available |-> TRUE, levels |-> <<lvl>>],
               [loaded |-> <<>>, assets |-> <<>>,
                w |-> [seen |-> {}, log |-> <<>>]]).acc.assets[TheKey]

\* C13: after loadLevels, a level whose background loads is in the pool
\* whatever its foreground and layers are; a role that failed is absent in
\* its bundle, and every other role holds what it holds when the failed role
\* is replaced by one that loads.
C13_LayerFailureIsolation ==
  (levelsPhase # "pending" /\ HasLoadableBackground(TheLevel)) =>
    /\ levelsPhase = "ok"
    /\ levelData = <<TheLevel>>
    /\ TheKey \in DOMAIN levelAssets
    /\ \A role \in Roles :
         Fails(TheLevel, role) =>
           /\ levelAssets[TheKey][BundleSlot[role]] = Absent(role)
           /\ \A fixed \in Repaired(TheLevel, role) :
                \A other \in Roles \ {role} :
                  levelAssets[TheKey][BundleSlot[other]] =
                    BundleOf(fixed)[BundleSlot[other]]

\* a level loaded with two failed roles and a layer that resolved
C13_Witness ==
  /\ levelsPhase = "ok"
  /\ Cardinality({role \in Roles : Fails(TheLevel, role)}) = 2
  /\ \E role \in SlotNames :
       levelAssets[TheKey][BundleSlot[role]] # NullAsset

\* ------------------------------------------------------------------- C14
\* the warnings logged for one role of one level
Logged(id, role) ==
  Cardinality({i \in 1..Len(warnLog) :
                 warnLog[i][1] = id /\ warnLog[i][2] = role})

\* C14: after loadLevels, every role of the loaded level that is
\* misconfigured or failed to load has exactly one warning, every other role
\* has none, and no key is logged twice.
C14_WarnedOncePerKey ==
  levelsPhase = "ok" =>
    /\ \A role \in Roles :
         Logged(TheKey, role) = IF Fails(TheLevel, role) THEN 1 ELSE 0
    /\ \A i, j \in 1..Len(warnLog) : warnLog[i] = warnLog[j] => i = j

\* ------------------------------------------------------------------- C17
\* layer1 of the only level of SpecLayer
Layer1 == levelAssets["a"].l1
Animated == levelsPhase = "ok" /\ Layer1.kind = "frames"

\* C17: a call that delivers k whole frame intervals (k up to MaxIntervals)
\* to an animated layer with an empty timer advances frameIndex by exactly k
\* modulo the number of frames and leaves the timer empty; after every call
\* the timer is below one frame interval and frameIndex is an index of the
\* frames.
C17_CatchUpStep ==
  (Animated /\ Animated') =>
    /\ \A k \in 0..MaxIntervals :
         (Layer1.timer = 0 /\ DrawLayers(k * spf(Layer1))) =>
           /\ Layer1'.frameIndex = (Layer1.frameIndex + k) % Layer1.frames
           /\ Layer1'.timer = 0
    /\ Layer1'.timer >= 0 /\ Layer1'.timer < spf(Layer1)
    /\ Layer1'.frameIndex \in 0..(Layer1.frames - 1)

C27_CursorInvariant ==
  CarouselLoaded =>
    /\ Len(state.carousel) >= 1
    /\ state.carouselPos \in 0..(Len(state.carousel) - 1)
    /\ state.levelIndex = At(state.carousel, state.carouselPos)
    /\ state.levelIndex \in 0..(Len(levelData) - 1)

\* a history grown at both ends, the cursor back on an inner entry
C27_Witness ==
  /\ CarouselLoaded /\ boot = "running"
  /\ Len(state.carousel) = 3 /\ state.carouselPos = 1
  /\ state.carousel[1] # state.homeIndex
  /\ rightRun = -1

\* ------------------------------------------------------------------- C24
MoveIn(dir, s) ==
  IF dir = "left" THEN carouselMoveLeft(s) ELSE carouselMoveRight(s)

\* the level indices n consecutive completed moves in one direction can
\* show, one sequence per run of the random draws
RECURSIVE Visits(_, _, _)
Visits(s, dir, n) ==
  IF n = 0 THEN {<<>>}
  ELSE UNION {{<<r.ret>> \o v :
                 v \in Visits([r.st EXCEPT !.levelIndex = r.ret], dir, n - 1)} :
              r \in MoveIn(dir, s)}

\* C24: in a home-seeded carousel the home index occurs exactly once in
\* state.carousel; once every non-home level has been used the carousel holds
\* every usable level, and L moves in one direction (L usable levels) show
\* each level exactly once, the last of them the level the walk began on.
C24_HomeStaysInLoop ==
  HomeSeeded =>
    /\ Occurrences(state.carousel, state.homeIndex) = 1
    /\ AllUsed(state) =>
         /\ Range(state.carousel) = 0..(NumLevels - 1)
         /\ \A dir \in Edges : \A v \in Visits(state, dir, NumLevels) :
              /\ Range(v) = 0..(NumLevels - 1)
              /\ NoDuplicates(v)
              /\ v[NumLevels] = state.levelIndex

\* a ring of four levels completed in both directions, home inside it and
\* the cursor elsewhere
C24_Witness ==
  /\ HomeSeeded /\ NumLevels = 4 /\ AllUsed(state)
  /\ state.carousel[1] # state.homeIndex
  /\ state.carousel[4] # state.homeIndex
  /\ state.levelIndex # state.homeIndex

\* ------------------------------------------------------------------- C25
\* C25: after loadLevels of the carousel version, state.homeIndex is the
\* index, in the levels of the document whose background loads, of the first
\* one flagged isHome, or -1 if none of those is flagged; every other index
\* of the pool is a non-home index for the carousel, whatever its flag.
C25_HomeDetection ==
  CarouselLoaded =>
    LET pool == Filter(config.levels, 1)
        flagged == {k \in 1..Len(pool) : pool[k].isHome}
    IN  /\ levelData = pool
        /\ flagged = {} => state.homeIndex = -1
        /\ flagged # {} =>
             /\ state.homeIndex + 1 \in flagged
             /\ \A k \in flagged : state.homeIndex + 1 <= k
        /\ Range(nonHomeIndices(state)) =
             (0..(Len(pool) - 1)) \ {state.homeIndex}
        /\ \A i \in 0..(Len(pool) - 1) :
             isHomeIndex(state, i) <=> i = state.homeIndex

\* the first home-flagged level has no loadable background; of the two
\* usable levels, both flagged, the first is home and the other was drawn
\* into the carousel as a non-home level
C25_Witness ==
  /\ CarouselLoaded
  /\ Len(config.levels) = 3
  /\ config.levels[1].isHome /\ ~HasLoadableBackground(config.levels[1])
  /\ Len(levelData) = 2 /\ levelData[1].isHome /\ levelData[2].isHome
  /\ state.homeIndex = 0
  /\ state.carousel = <<0, 1>>

\* ------------------------------------------------------------------- C28
\* currentLevelAssets for the level lvl: the key of levelAssets.get(lvl.id)
LookupKey(lvl) == Field(lvl, "id", Undefined)

\* C28: after loadLevels, every level of levelData has a bundle under the
\* key the renderer looks it up with, and the bundle's background is the
\* image loaded from that level's own background source.
C28_OwnBundle ==
  Loaded =>
    \A i \in 1..Len(levelData) :
      /\ LookupKey(levelData[i]) \in DOMAIN levelAssets
      /\ levelAssets[LookupKey(levelData[i])].bgImg = levelData[i].background

\* ------------------------------------------------------------------- C22
\* a steady tick of the counted run
SteadyTick == ticks' = ticks + 1 /\ ~state.transitioning

\* C22: in a steady tick, with acc the frame timer accumulated in the mode
\* the tick leaves the player in (the old timer, or 0 after a mode switch,
\* plus dt) and k the whole frame intervals of that mode in acc, frameIndex
\* advances by k modulo the mode's frame count and the timer that remains is
\* acc less k intervals, below one interval.
C22_Step ==
  SteadyTick =>
    \E d \in Deltas :
      LET dt == Min(MaxDtMs, d) * TicksPerMs
          switched == player'.anim # player.anim
          base == IF switched THEN 0 ELSE player.frameIndex
          acc == (IF switched THEN 0 ELSE player.frameTimer) + dt
          iv == interval(currentFps(version, player'))
          k == acc \div iv
      IN  /\ player'.frameIndex =
               (base + k) % currentFrames(heroFrames, player')
          /\ player'.frameTimer = acc - k * iv
          /\ player'.frameTimer < iv

C22_PlayerCatchUp == [][C22_Step]_vars

\* the walk animation has advanced twice
C22_Witness ==
  /\ boot = "running" /\ ticks >= 6
  /\ player.anim = "walk" /\ player.frameIndex = 2
  /\ player.frameTimer < interval(WalkFps)

\* ---- C21
\* the frame index drawn is a valid index into the current mode's sequence
ValidFrameIndex(p, hf) ==
  (p.visible /\ currentFrames(hf, p) > 0) => p.frameIndex < currentFrames(hf, p)

C21_Step ==
  (ticks' = ticks + 1) =>
    /\ \* a steady tick that switches the mode restarts the counter: after
       \* the tick's own advance it stands at frame 0 with one delta on the timer
       (~state.transitioning /\ player'.anim # player.anim) =>
         /\ player'.frameIndex = 0
         /\ player'.frameTimer = MaxDtMs * TicksPerMs
    /\ \* a completion that switches the mode leaves the counter at zero
       (Finishing /\ player'.anim # player.anim) =>
         /\ player'.frameIndex = 0
         /\ player'.frameTimer = 0
    /\ \* a steady tick that keeps the mode carries the timer on
       (~state.transitioning /\ player'.anim = player.anim) =>
         (player'.frameTimer - player.frameTimer - MaxDtMs * TicksPerMs)
            % interval(currentFps(version, player)) = 0
    /\ ValidFrameIndex(player', heroFrames')

\* C21: whenever the animation mode changes between idle and walk (in a
\* steady tick or on transition completion) the frame index and frame timer
\* restart from 0 at that switch, the frame index drawn is always a valid
\* index into the current mode's sequence, and when the mode does not change
\* the counter is not reset.
C21_AnimReset == [][C21_Step]_vars

\* ---- C29
\* a tick of the carousel script after a completed transition, with no net
\* key input
IdleTickAfterTransition ==
  /\ Tick
  /\ version = "carousel"
  /\ rightRun # 0
  /\ ~state.transitioning
  /\ input.left = input.right

\* C29: after a completed transition, as long as neither or both of left and
\* right are held, every tick leaves the machine steady with the level index,
\* the player position and the facing unchanged.
C29_NoSpuriousRetrigger ==
  [][IdleTickAfterTransition =>
       /\ ~state'.transitioning
       /\ state'.levelIndex = state.levelIndex
       /\ player'.x = player.x
       /\ player'.facing = player.facing]_vars

\* the same statement for a sprite that leaves room for the inset on both sides
C29_WithRoom ==
  [][(IdleTickAfterTransition /\ MaxX > 2 * EdgeInset * 100) =>
       /\ ~state'.transitioning
       /\ state'.levelIndex = state.levelIndex
       /\ player'.x = player.x
       /\ player'.facing = player.facing]_vars

\* ---- C30
Cursor(s) == <<s.levelIndex, s.carousel, s.carouselPos>>

C30_Step ==
  (version = "carousel" /\ boot = "running") =>
    /\ \* the cursor moves only in the tick that completes a transition
       Cursor(state') # Cursor(state) => (ticks' = ticks + 1 /\ Finishing)
    /\ \* a steady tick keeps the cursor
       (ticks' = ticks + 1 /\ ~state.transitioning) =>
         Cursor(state') = Cursor(state)
    /\ \* a tick before the deadline keeps the cursor and the player
       (ticks' = ticks + 1 /\ state.transitioning /\ state'.transitioning) =>
         /\ Cursor(state') = Cursor(state)
         /\ player' = player
    /\ \* a key event sets input flags and nothing else
       (ticks' = ticks) =>
         /\ state' = state /\ player' = player
         /\ \E k \in {"left", "right"}, b \in BOOLEAN :
              input' = [input EXCEPT ![k] = b]

\* C30: once the loop runs, state.levelIndex, state.carousel and carouselPos
\* change only in the tick that completes a transition; a steady tick never
\* changes them; a tick while transitioning before the deadline changes
\* neither them nor the player's position, facing, animation mode, frame
\* index or frame timer; a key event only sets an input flag.
C30_FrameCondition == [][C30_Step]_vars

\* the player walked into the left edge, a tick has passed before the
\* deadline, and by now left is released and right is held: the player is
\* still as the trigger left it
C30_Witness ==
  /\ version = "carousel" /\ boot = "running"
  /\ state.transitioning /\ state.lastEdge = "left"
  /\ state.transitionUntil < TransitionMs
  /\ ~input.left /\ input.right
  /\ player.x = 0 /\ player.facing = -1 /\ player.anim = "walk"
  /\ player.frameTimer > 0

\* ---- C23
StackOrder ==
  <<"background", "layer1", "player", "layer2", "layer3", "layer4",
    "foreground">>
LayeredOrder == <<"background", "layer1", "player", "foreground", "layer2">>

\* the bundle of the current level, if it has one
HasBundle ==
  /\ (state.levelIndex + 1) \in DOMAIN levelData
  /\ Field(levelData[state.levelIndex + 1], "id", Undefined) \in DOMAIN levelAssets
CurrentBundle == levelAssets[Field(levelData[state.levelIndex + 1], "id", Undefined)]

\* the role has something to draw: the visible hero, or an asset resolved
\* for the role in the current level's bundle
HasAsset(role) ==
  IF role = "player" THEN player.visible /\ currentFrames(heroFrames, player) > 0
  ELSE /\ HasBundle
       /\ BundleField[role] \in DOMAIN CurrentBundle
       /\ IF role \in {"background", "foreground"}
          THEN CurrentBundle[BundleField[role]] # NullImg
          ELSE CurrentBundle[BundleField[role]] # NullAsset

\* C23: in every frame the draw calls are issued in the order background,
\* layer-1, player, layer-2, layer-3, layer-4, foreground, a role without a
\* resolved asset (or the hidden player) being skipped.
C23_DrawOrder ==
  (boot = "running" /\ frame.no >= 1) =>
    frame.calls = SelectSeq(StackOrder, HasAsset)

\* C23 as amended: that order in part_000; background, layer-1, player,
\* foreground, layer-2 in main.js; a role without a resolved asset (or the
\* hidden player) is skipped and the others keep their order.
C23_DrawOrderPerScript ==
  (boot = "running" /\ frame.no >= 1) =>
    frame.calls = SelectSeq(IF version = "carousel" THEN StackOrder
                                                    ELSE LayeredOrder,
                            HasAsset)

\* main.js has drawn a frame of a level with a foreground and a layer-2
C23_Witness ==
  /\ boot = "running" /\ version = "random"
  /\ frame.calls = <<"background", "player", "foreground", "layer2">>

\* part_000 has drawn a frame with the hero hidden and layer-1 and layer-3
\* absent
C23_SkipReached ==
  /\ boot = "running" /\ version = "carousel"
  /\ frame.calls = <<"background", "layer2", "layer4", "foreground">>

\* ---- C26
\* the edge trigger sets the deadline 60 ms after the trigger time
Arming == ~state.transitioning /\ state'.transitioning

C26_Step ==
  /\ Arming => state'.transitionUntil >= TransitionMs
  /\ Finishing =>
       /\ Tick
       /\ \E d \in Deltas, j \in Jitters :
            /\ j >= state.transitionUntil - d
            /\ <<state', player'>> \in
                 finishTransition([state EXCEPT !.transitionUntil = Max(0, @ - d)],
                                  player)

\* C26: while frames keep being drawn, a machine that is transitioning
\* eventually is steady again; it leaves the transitioning state only by
\* finishTransition, in a tick whose clock has reached transitionUntil, which
\* the trigger set 60 ms ahead.
C26_TransitionLiveness ==
  /\ state.transitioning ~> ~state.transitioning
  /\ [][C26_Step]_vars

\* two transitions at the right edge have run to completion
C26_Witness ==
  /\ boot = "running" /\ ~state.transitioning /\ rightRun = 2
  /\ state.transitionUntil = 0


====
